---- MODULE Spec2Model ----
(***************************************************************************)
(* A model of the candidate-evaluation rule engine: the gap calculator and *)
(* overall assessment of CVAnalyzer, the per-response scorer of            *)
(* InterviewScorer and the final recommendation of ReportGenerator.        *)
(*                                                                         *)
(* Python values are modelled as follows.                                  *)
(*   dict   a TLA+ record; "k in d" is  k \in DOMAIN d                     *)
(*   str    a sequence of character codes, so that lower(), len() and the  *)
(*          substring test "in" are computed and not assumed               *)
(*   number an exact fraction [n, d] in lowest terms (the code uses IEEE   *)
(*          doubles; the model computes the same expressions exactly)      *)
(*   a value whose run-time type the code inspects (isinstance, .items())  *)
(*          is a tagged record [kind, val]                                 *)
(***************************************************************************)
EXTENDS Integers, Sequences, FiniteSets, TLC

VARIABLES
    pc,                    \* which call has been made
    cv_skills,             \* argument: the candidate skill record
    job_requirements,      \* argument: the job requirement record
    skill_gaps,            \* the gap record (_calculate_skill_gaps' result)
    llm_analysis,          \* argument: the external analysis record
    assessment,            \* _generate_overall_assessment's result
    overall_score,         \* argument of the _determine_* functions
    risk_level,            \* _determine_risk_level's result
    hiring_recommendation, \* _determine_hiring_recommendation's result
    cv_analysis,           \* argument of _generate_final_recommendation
    interview_scores,      \* argument of _generate_final_recommendation
    final_recommendation,  \* _generate_final_recommendation's result
    question,              \* argument of _fallback_scoring
    response,              \* argument of _fallback_scoring
    scoring_result,        \* _fallback_scoring's result
    questions_responses,   \* argument of score_multiple_responses
    results,               \* score_multiple_responses' result
    individual_scores,     \* argument of _calculate_consistency_score
    consistency_score,     \* _calculate_consistency_score's result
    files,                 \* the files on disk, by path
    cv_file_path,          \* argument of analyze_cv_against_job
    job_description_path,  \* argument of analyze_cv_against_job and batch_analyze_cvs
    cv_files,              \* argument of batch_analyze_cvs
    analysis_result,       \* analyze_cv_against_job's result
    batch_results,         \* batch_analyze_cvs' result
    comprehensive_report,  \* generate_comprehensive_report's result
    evaluations,           \* argument of generate_batch_reports
    batch_reports,         \* generate_batch_reports' result
    response_files,        \* the response files found, with their contents
    candidate,             \* index of the candidate the loop of main is at
    questions,             \* generate_interview_questions' result
    all_evaluations,       \* the evaluations main has stored
    stages_run,            \* history: the stages run so far, in order
    cv_text,               \* argument of _fallback_skill_extraction
    job_description,       \* argument of _fallback_requirement_extraction
    extracted_skills,      \* _fallback_skill_extraction's result
    extracted_requirements \* _fallback_requirement_extraction's result

\* the variables of each part of the model
gapVars == <<cv_skills, job_requirements, skill_gaps, llm_analysis, assessment,
             overall_score, risk_level, hiring_recommendation>>
reportVars == <<cv_analysis, interview_scores, final_recommendation>>
scoringVars == <<question, response, scoring_result>>
aggregateVars == <<questions_responses, results, individual_scores, consistency_score>>
analysisVars == <<files, cv_file_path, job_description_path, cv_files,
                  analysis_result, batch_results>>
extractVars == <<cv_text, job_description, extracted_skills, extracted_requirements>>
comprehensiveVars == <<comprehensive_report, evaluations, batch_reports>>
workflowVars == <<response_files, candidate, questions, all_evaluations, stages_run>>

vars == <<pc, gapVars, reportVars, scoringVars, aggregateVars, analysisVars, extractVars,
          comprehensiveVars, workflowVars>>

\* A variable a specification does not use holds this value throughout.
Unset == "unset"

NoGap ==
    /\ cv_skills = Unset
    /\ job_requirements = Unset
    /\ skill_gaps = Unset
    /\ llm_analysis = Unset
    /\ assessment = Unset
    /\ overall_score = Unset
    /\ risk_level = Unset
    /\ hiring_recommendation = Unset

NoReport ==
    /\ cv_analysis = Unset
    /\ interview_scores = Unset
    /\ final_recommendation = Unset

NoScoring ==
    /\ question = Unset
    /\ response = Unset
    /\ scoring_result = Unset

NoAggregate ==
    /\ questions_responses = Unset
    /\ results = Unset
    /\ individual_scores = Unset
    /\ consistency_score = Unset

NoAnalysis ==
    /\ files = Unset
    /\ cv_file_path = Unset
    /\ job_description_path = Unset
    /\ cv_files = Unset
    /\ analysis_result = Unset
    /\ batch_results = Unset

NoExtract ==
    /\ cv_text = Unset
    /\ job_description = Unset
    /\ extracted_skills = Unset
    /\ extracted_requirements = Unset

NoComprehensive ==
    /\ comprehensive_report = Unset
    /\ evaluations = Unset
    /\ batch_reports = Unset

NoWorkflow ==
    /\ response_files = Unset
    /\ candidate = Unset
    /\ questions = Unset
    /\ all_evaluations = Unset
    /\ stages_run = Unset

\* Python's None.
None == "None"

-----------------------------------------------------------------------------
(* Bounds of the model.                                                    *)

\* Most skill entries (over all categories) in a candidate record.
MaxCvSkills == 2

\* Most skill entries (over all categories) in a job requirement record.
MaxJobSkills == 3

\* Scores passed to the _determine_* functions are the multiples of 1/ScoreDen.
ScoreDen == 2

\* Interview overall scores are the multiples of 1/InterviewDen in [0, 10].
InterviewDen == 4

\* Most question/response pairs in one call of score_multiple_responses.
MaxPairs == 3

\* Most CV paths in one call of batch_analyze_cvs.
MaxBatch == 3

\* Most phrases in a CV or job description text given to the extractors.
MaxPhrases == 3

\* Most evaluations in one call of generate_batch_reports.
MaxEvaluations == 2

-----------------------------------------------------------------------------
(* Numbers: exact fractions in lowest terms, d > 0.                        *)

RECURSIVE GCD(_, _)
GCD(a, b) == IF b = 0 THEN a ELSE GCD(b, a % b)

Abs(x) == IF x < 0 THEN -x ELSE x

Rat(n, d) == LET g == GCD(Abs(n), d) IN [n |-> n \div g, d |-> d \div g]

R(k) == [n |-> k, d |-> 1]

RAdd(a, b) == Rat(a.n * b.d + b.n * a.d, a.d * b.d)

RSub(a, b) == Rat(a.n * b.d - b.n * a.d, a.d * b.d)

RMul(a, b) == Rat(a.n * b.n, a.d * b.d)

\* a / k for an integer k > 0
RDiv(a, k) == Rat(a.n, a.d * k)

RLt(a, b) == a.n * b.d < b.n * a.d

RLe(a, b) == a.n * b.d <= b.n * a.d

RGe(a, b) == RLe(b, a)

RGt(a, b) == RLt(b, a)

RMin(a, b) == IF RLe(a, b) THEN a ELSE b

RMax(a, b) == IF RGe(a, b) THEN a ELSE b

-----------------------------------------------------------------------------
(* Strings: sequences of character codes.                                  *)

\* str.lower() on the ASCII letters
Lower(s) == [i \in 1..Len(s) |-> IF s[i] \in 65..90 THEN s[i] + 32 ELSE s[i]]

\* "sub in s"
Contains(s, sub) ==
    \E i \in 0..(Len(s) - Len(sub)) : SubSeq(s, i + 1, i + Len(sub)) = sub

S_Python == <<80, 121, 116, 104, 111, 110>>      \* "Python"
S_python == <<112, 121, 116, 104, 111, 110>>     \* "python"
S_Java   == <<74, 97, 118, 97>>                  \* "Java"
S_java   == <<106, 97, 118, 97>>                 \* "java"
S_Docker == <<68, 111, 99, 107, 101, 114>>       \* "Docker"
S_docker == <<100, 111, 99, 107, 101, 114>>      \* "docker"

S_unknown == <<117, 110, 107, 110, 111, 119, 110>>   \* "unknown"
S_junior  == <<106, 117, 110, 105, 111, 114>>        \* "junior"
S_senior  == <<115, 101, 110, 105, 111, 114>>        \* "senior"
S_Junior  == <<74, 117, 110, 105, 111, 114>>         \* "Junior"
S_Senior  == <<83, 101, 110, 105, 111, 114>>         \* "Senior"
S_1to2    == <<49, 45, 50>>                          \* "1-2"
S_5plus   == <<53, 43>>                              \* "5+"

-----------------------------------------------------------------------------
(* Input records of _calculate_skill_gaps.                                 *)

PyList(s) == [kind |-> "list", val |-> s]
PyDict(f) == [kind |-> "dict", val |-> f]
PyStr(s)  == [kind |-> "str", val |-> s]

IsList(x) == x.kind = "list"
IsDict(x) == x.kind = "dict"

\* every list of at most n elements of pool that names no element twice (a
\* name may still stand in several categories)
ListsUpTo(pool, n) ==
    UNION {{s \in [1..k -> pool] : \A i, j \in 1..k : i # j => s[i] # s[j]} : k \in 0..n}

RECURSIVE EntryCount(_, _)
\* number of list entries a category mapping holds over the categories cats
EntryCount(f, cats) ==
    IF cats = {} THEN 0
    ELSE LET c == CHOOSE x \in cats : TRUE
         IN  (IF IsList(f[c]) THEN Len(f[c].val) ELSE 0) + EntryCount(f, cats \ {c})

\* technical_skills as a mapping category -> list, at most n entries in all
ListMappings(cats, pool, n) ==
    {PyDict(f) : f \in {g \in [cats -> {PyList(s) : s \in ListsUpTo(pool, n)}] :
                           EntryCount(g, cats) <= n}}

\* the same with one category holding a value that is no list (a string)
NonListMappings(cats, pool) ==
    {PyDict([c \in cats |-> IF c = odd THEN PyStr(S_python) ELSE PyList(s)]) :
        odd \in cats, s \in ListsUpTo(pool, 1)}

\* technical_skills as a flat list of skill names (the shape the tests pass)
FlatSkillLists(pool, n) == {PyList(s) : s \in ListsUpTo(pool, n)}

ExperienceLevels == {"unknown", "junior", "mid-level", "senior"}

CvCategories == {"programming_languages", "frameworks"}
CvSkillPool == {S_Python, S_java}

JobCategories == {"programming_languages", "tools"}
JobSkillPool == {S_python, S_Java, S_Docker}

CvTechnicalSkills(n) ==
    ListMappings(CvCategories, CvSkillPool, n)
    \cup NonListMappings(CvCategories, CvSkillPool)
    \cup FlatSkillLists(CvSkillPool, 1)

JobTechnicalSkills(n) ==
    ListMappings(JobCategories, JobSkillPool, n)
    \cup NonListMappings(JobCategories, JobSkillPool)
    \cup FlatSkillLists(JobSkillPool, 2)

\* candidate skill records: every key is optional
CvSkillRecords(n) ==
    {[technical_skills |-> t, experience_level |-> e] :
        t \in CvTechnicalSkills(n), e \in ExperienceLevels}
    \cup {[technical_skills |-> t] : t \in CvTechnicalSkills(1)}
    \cup {[experience_level |-> e] : e \in ExperienceLevels}

\* job requirement records: every key is optional
JobRequirementRecords(n) ==
    {[required_skills |-> [technical_skills |-> t],
      experience_requirements |-> [experience_level |-> e]] :
        t \in JobTechnicalSkills(n), e \in ExperienceLevels}
    \cup {[required_skills |-> [technical_skills |-> t]] : t \in JobTechnicalSkills(1)}
    \cup {[required_skills |-> [soft_skills |-> PyList(<<>>)],
           experience_requirements |-> [experience_level |-> e]] : e \in ExperienceLevels}
    \cup {[experience_requirements |-> [experience_level |-> e]] : e \in ExperienceLevels}

-----------------------------------------------------------------------------
(* CVAnalyzer._calculate_skill_gaps                                        *)

\* dict.get(k, default)
Get(d, k, default) == IF k \in DOMAIN d THEN d[k] ELSE default

\* the dict {}
EmptyDict == [k \in {} |-> None]

\* FlattenLower without the case folding
FlattenLower_NoFold(mapping) ==
    UNION {{mapping.val[c].val[i] : i \in 1..Len(mapping.val[c].val)} :
              c \in {x \in DOMAIN mapping.val : IsList(mapping.val[x])}}

\* the lower-cased names of the list-valued categories of a mapping
FlattenLower(mapping) ==
    UNION {{Lower(mapping.val[c].val[i]) : i \in 1..Len(mapping.val[c].val)} :
              c \in {x \in DOMAIN mapping.val : IsList(mapping.val[x])}}

\* cv_all_skills (lines 188-192)
CvAllSkills(cv) ==
    IF "technical_skills" \in DOMAIN cv THEN FlattenLower(cv.technical_skills) ELSE {}

HasRequiredTechnical(job) ==
    /\ "required_skills" \in DOMAIN job
    /\ "technical_skills" \in DOMAIN job.required_skills

\* job_all_skills (lines 195-199)
JobAllSkills(job) ==
    IF HasRequiredTechnical(job) THEN FlattenLower(job.required_skills.technical_skills)
    ELSE {}

\* .items() on a value that is no dict raises AttributeError inside the try
GapsRaises(cv, job) ==
    \/ "technical_skills" \in DOMAIN cv /\ ~IsDict(cv.technical_skills)
    \/ HasRequiredTechnical(job) /\ ~IsDict(job.required_skills.technical_skills)

\* the record built at lines 177-184
InitialGaps ==
    [missing_technical_skills |-> <<>>,
     missing_soft_skills |-> <<>>,
     missing_tools |-> <<>>,
     experience_gap |-> None,
     education_gap |-> None,
     gap_score |-> R(0)]

\* lines 205-212
ExperienceGap(cv, job) ==
    LET cv_exp == Get(cv, "experience_level", "unknown")
        job_exp == Get(Get(job, "experience_requirements", EmptyDict),
                       "experience_level", "unknown")
    IN  IF cv_exp # "unknown" /\ job_exp # "unknown"
        THEN IF cv_exp = "junior" /\ job_exp = "senior" THEN "junior_applying_for_senior"
             ELSE IF cv_exp = "senior" /\ job_exp = "junior" THEN "senior_applying_for_junior"
             ELSE None
        ELSE None

\* GapScore without the clamp of line 227
GapScore_NoClamp(missing_count, total_required, experience_gap) ==
    IF total_required > 0
    THEN LET base_gap_score == RMul(Rat(missing_count, total_required), R(100))
         IN  IF experience_gap = "junior_applying_for_senior"
             THEN RAdd(base_gap_score, R(30))
             ELSE IF experience_gap = "senior_applying_for_junior"
             THEN RSub(base_gap_score, R(20))
             ELSE base_gap_score
    ELSE R(0)

\* GapScore with the two adjustments exchanged
GapScore_SwappedAdjust(missing_count, total_required, experience_gap) ==
    IF total_required > 0
    THEN LET base_gap_score == RMul(Rat(missing_count, total_required), R(100))
             adjusted ==
                 IF experience_gap = "junior_applying_for_senior"
                 THEN RSub(base_gap_score, R(20))
                 ELSE IF experience_gap = "senior_applying_for_junior"
                 THEN RAdd(base_gap_score, R(30))
                 ELSE base_gap_score
         IN  RMax(R(0), RMin(R(100), adjusted))
    ELSE R(0)

\* GapScore with the adjustment made outside the total_required > 0 test
GapScore_AdjustAlways(missing_count, total_required, experience_gap) ==
    LET base_gap_score ==
            IF total_required > 0
            THEN RMul(Rat(missing_count, total_required), R(100))
            ELSE R(0)
        adjusted ==
            IF experience_gap = "junior_applying_for_senior"
            THEN RAdd(base_gap_score, R(30))
            ELSE IF experience_gap = "senior_applying_for_junior"
            THEN RSub(base_gap_score, R(20))
            ELSE base_gap_score
    IN  RMax(R(0), RMin(R(100), adjusted))

\* lines 215-229
GapScore(missing_count, total_required, experience_gap) ==
    IF total_required > 0
    THEN LET base_gap_score == RMul(Rat(missing_count, total_required), R(100))
             adjusted ==
                 IF experience_gap = "junior_applying_for_senior"
                 THEN RAdd(base_gap_score, R(30))
                 ELSE IF experience_gap = "senior_applying_for_junior"
                 THEN RSub(base_gap_score, R(20))
                 ELSE base_gap_score
         IN  RMax(R(0), RMin(R(100), adjusted))
    ELSE R(0)

\* RiskFields with the generic values for every experience gap
RiskFields_AlwaysMedium(experience_gap) ==
    [overqualification_risk |-> "medium", retention_risk |-> "medium",
     risk_factors |-> <<"Standard risk assessment">>]

\* lines 232-252
RiskFields(experience_gap) ==
    IF experience_gap = "senior_applying_for_junior"
    THEN [overqualification_risk |-> "high", retention_risk |-> "high",
          risk_factors |-> <<"Candidate may feel underutilized",
                             "Higher salary expectations",
                             "May leave for better opportunities",
                             "Could be bored with junior-level tasks">>]
    ELSE IF experience_gap = "junior_applying_for_senior"
    THEN [overqualification_risk |-> "low", retention_risk |-> "low",
          risk_factors |-> <<"Candidate may struggle with senior responsibilities",
                             "Learning curve could be steep",
                             "May need additional training and support">>]
    ELSE [overqualification_risk |-> "medium", retention_risk |-> "medium",
          risk_factors |-> <<"Standard risk assessment">>]

\* the orders list(set) may give the elements of a set in
Orderings(S) ==
    {s \in [1..Cardinality(S) -> S] : \A i, j \in 1..Cardinality(S) : i # j => s[i] # s[j]}

\* The whole function; missing is the order list() gave job_all - cv_all.
CalculateSkillGapsResult(cv, job, missing) ==
    IF GapsRaises(cv, job)
    THEN InitialGaps
    ELSE LET experience_gap == ExperienceGap(cv, job)
             gap_score == GapScore(Len(missing), Cardinality(JobAllSkills(job)),
                                   experience_gap)
         IN  [missing_technical_skills |-> missing,
              missing_soft_skills |-> <<>>,
              missing_tools |-> <<>>,
              experience_gap |-> experience_gap,
              education_gap |-> None,
              gap_score |-> gap_score] @@ RiskFields(experience_gap)

MissingOrders(cv, job) ==
    IF GapsRaises(cv, job) THEN {<<>>} ELSE Orderings(JobAllSkills(job) \ CvAllSkills(cv))

CalculateSkillGaps ==
    /\ pc = "start"
    /\ \E missing \in MissingOrders(cv_skills, job_requirements) :
          skill_gaps' = CalculateSkillGapsResult(cv_skills, job_requirements, missing)
    /\ pc' = "gaps"
    /\ UNCHANGED <<cv_skills, job_requirements, llm_analysis, assessment,
                   overall_score, risk_level, hiring_recommendation,
                   cv_analysis, interview_scores, final_recommendation,
                   question, response, scoring_result>>
    /\ UNCHANGED <<aggregateVars, analysisVars, extractVars, comprehensiveVars,
                 workflowVars>>

InitGap ==
    /\ pc = "start"
    /\ cv_skills \in CvSkillRecords(MaxCvSkills)
    /\ job_requirements \in JobRequirementRecords(MaxJobSkills)
    /\ skill_gaps = Unset
    /\ llm_analysis = Unset
    /\ assessment = Unset
    /\ overall_score = Unset
    /\ risk_level = Unset
    /\ hiring_recommendation = Unset
    /\ cv_analysis = Unset
    /\ interview_scores = Unset
    /\ final_recommendation = Unset
    /\ question = Unset
    /\ response = Unset
    /\ scoring_result = Unset
    /\ NoAggregate /\ NoAnalysis /\ NoExtract /\ NoComprehensive /\ NoWorkflow

NextGap == CalculateSkillGaps

SpecGap == InitGap /\ [][NextGap]_vars

-----------------------------------------------------------------------------
(* CVAnalyzer._determine_risk_level and _determine_hiring_recommendation   *)

\* skill_gaps = None, the default of _determine_risk_level's parameter
NoneRecord == [None |-> None]

IsNone(x) == "None" \in DOMAIN x

\* the truth value of "skill_gaps and ...": None and {} are false
Truthy(d) == ~IsNone(d) /\ DOMAIN d # {}

\* _determine_risk_level without the overqualification test of lines 402-403
DetermineRiskLevelResult_ScoreOnly(score, gaps) ==
    IF RGe(score, R(80)) THEN "low"
    ELSE IF RGe(score, R(60)) THEN "medium"
    ELSE "high"

\* lines 399-411
DetermineRiskLevelResult(score, gaps) ==
    IF Truthy(gaps) /\ Get(gaps, "overqualification_risk", None) = "high"
    THEN "high"
    ELSE IF RGe(score, R(80)) THEN "low"
    ELSE IF RGe(score, R(60)) THEN "medium"
    ELSE "high"

\* _determine_hiring_recommendation without the gap_score test of line 420
DetermineHiringRecommendationResult_NoGapTest(score, gaps) ==
    IF Truthy(gaps) /\ Get(gaps, "overqualification_risk", None) = "high"
    THEN "consider_with_caution"
    ELSE IF RGe(score, R(85)) THEN "strong_hire"
    ELSE IF RGe(score, R(70)) THEN "hire"
    ELSE IF RGe(score, R(50)) THEN "consider"
    ELSE "reject"

\* lines 413-427; skill_gaps.get on None raises AttributeError, and is reached
\* only when overall_score >= 85
DetermineHiringRecommendationResult(score, gaps) ==
    IF Truthy(gaps) /\ Get(gaps, "overqualification_risk", None) = "high"
    THEN "consider_with_caution"
    ELSE IF RGe(score, R(85)) /\ IsNone(gaps) THEN "AttributeError"
    ELSE IF RGe(score, R(85)) /\ RLt(Get(gaps, "gap_score", R(0)), R(20))
    THEN "strong_hire"
    ELSE IF RGe(score, R(70)) THEN "hire"
    ELSE IF RGe(score, R(50)) THEN "consider"
    ELSE "reject"

DetermineRiskLevel ==
    /\ pc \in {"direct", "gaps"}
    /\ risk_level = Unset
    /\ risk_level' = DetermineRiskLevelResult(overall_score, skill_gaps)
    /\ UNCHANGED <<pc, cv_skills, job_requirements, skill_gaps, llm_analysis, assessment,
                   overall_score, hiring_recommendation,
                   cv_analysis, interview_scores, final_recommendation,
                   question, response, scoring_result>>
    /\ UNCHANGED <<aggregateVars, analysisVars, extractVars, comprehensiveVars,
                 workflowVars>>

DetermineHiringRecommendation ==
    /\ pc \in {"direct", "gaps"}
    /\ hiring_recommendation = Unset
    /\ hiring_recommendation' =
           DetermineHiringRecommendationResult(overall_score, skill_gaps)
    /\ UNCHANGED <<pc, cv_skills, job_requirements, skill_gaps, llm_analysis, assessment,
                   overall_score, risk_level,
                   cv_analysis, interview_scores, final_recommendation,
                   question, response, scoring_result>>
    /\ UNCHANGED <<aggregateVars, analysisVars, extractVars, comprehensiveVars,
                 workflowVars>>

\* the scores 0, 1/ScoreDen, ..., 100, and two outside [0, 100]
Scores == {Rat(k, ScoreDen) : k \in 0..(100 * ScoreDen)} \cup {R(-30), R(110)}

GapScoreValues == {R(0), R(15), Rat(39, 2), R(20), R(100)}

RiskValues == {"low", "medium", "high"}

\* gap records passed directly: gap_score and overqualification_risk optional
DirectGapRecords ==
    {[gap_score |-> g, overqualification_risk |-> r] :
        g \in GapScoreValues, r \in RiskValues}
    \cup {[gap_score |-> g] : g \in GapScoreValues}
    \cup {[overqualification_risk |-> r] : r \in RiskValues}
    \cup {EmptyDict, NoneRecord}

\* the records of a gap computation followed by the two functions: every pair
\* of levels, against a job that lists its skill by category or as a flat list
LevelCvRecords ==
    {[technical_skills |-> PyDict([c \in CvCategories |-> PyList(s)]),
      experience_level |-> e] : s \in {<<>>, <<S_Python>>}, e \in ExperienceLevels}

LevelJobRecords ==
    {[required_skills |-> [technical_skills |-> t],
      experience_requirements |-> [experience_level |-> e]] :
        t \in {PyDict([c \in JobCategories |-> PyList(<<S_python>>)]),
               PyList(<<S_python>>)},
        e \in ExperienceLevels}

InitDetermine ==
    /\ overall_score \in Scores
    /\ \/ /\ pc = "direct"
          /\ skill_gaps \in DirectGapRecords
          /\ cv_skills = Unset
          /\ job_requirements = Unset
       \/ /\ pc = "start"
          /\ skill_gaps = Unset
          /\ cv_skills \in LevelCvRecords
          /\ job_requirements \in LevelJobRecords
    /\ llm_analysis = Unset
    /\ assessment = Unset
    /\ risk_level = Unset
    /\ hiring_recommendation = Unset
    /\ cv_analysis = Unset
    /\ interview_scores = Unset
    /\ final_recommendation = Unset
    /\ question = Unset
    /\ response = Unset
    /\ scoring_result = Unset
    /\ NoAggregate /\ NoAnalysis /\ NoExtract /\ NoComprehensive /\ NoWorkflow

NextDetermine ==
    \/ CalculateSkillGaps
    \/ DetermineRiskLevel
    \/ DetermineHiringRecommendation

SpecDetermine == InitDetermine /\ [][NextDetermine]_vars

-----------------------------------------------------------------------------
(* CVAnalyzer._fallback_skill_extraction and _fallback_requirement_extraction *)

\* is the character code a lower-case / an upper-case letter
IsLowerLetter(c) == c >= 97 /\ c <= 122
IsUpperLetter(c) == c >= 65 /\ c <= 90

\* str.title(): a letter is upper case after a non-letter (or at the start)
\* and lower case after a letter
Title(s) ==
    [k \in 1..Len(s) |->
        LET after_letter == k > 1 /\ (IsLowerLetter(s[k - 1]) \/ IsUpperLetter(s[k - 1]))
        IN  IF after_letter
            THEN (IF IsUpperLetter(s[k]) THEN s[k] + 32 ELSE s[k])
            ELSE (IF IsLowerLetter(s[k]) THEN s[k] - 32 ELSE s[k])]

\* any(word in text for word in words)
AnyIn(words, text) == \E k \in 1..Len(words) : Contains(text, words[k])

\* [f(x) for x in words if x in text]
RECURSIVE FoundIn(_, _)
FoundIn(words, text) ==
    IF words = <<>> THEN <<>>
    ELSE (IF Contains(text, Head(words)) THEN <<Head(words)>> ELSE <<>>)
         \o FoundIn(Tail(words), text)

\* common_skills, lines 480-485
CommonSkills ==
    [programming_languages |->
        <<
          <<112, 121, 116, 104, 111, 110>>,   \* "python"
          <<106, 97, 118, 97>>,   \* "java"
          <<106, 97, 118, 97, 115, 99, 114, 105, 112, 116>>,   \* "javascript"
          <<99, 43, 43>>,   \* "c++"
          <<99, 35>>,   \* "c#"
          <<112, 104, 112>>,   \* "php"
          <<114, 117, 98, 121>>,   \* "ruby"
          <<103, 111>>,   \* "go"
          <<114, 117, 115, 116>>   \* "rust"
        >>,
     frameworks |->
        <<
          <<100, 106, 97, 110, 103, 111>>,   \* "django"
          <<102, 108, 97, 115, 107>>,   \* "flask"
          <<114, 101, 97, 99, 116>>,   \* "react"
          <<97, 110, 103, 117, 108, 97, 114>>,   \* "angular"
          <<118, 117, 101>>,   \* "vue"
          <<115, 112, 114, 105, 110, 103>>,   \* "spring"
          <<110, 111, 100, 101, 46, 106, 115>>,   \* "node.js"
          <<101, 120, 112, 114, 101, 115, 115>>   \* "express"
        >>,
     databases |->
        <<
          <<109, 121, 115, 113, 108>>,   \* "mysql"
          <<112, 111, 115, 116, 103, 114, 101, 115, 113, 108>>,   \* "postgresql"
          <<109, 111, 110, 103, 111, 100, 98>>,   \* "mongodb"
          <<114, 101, 100, 105, 115>>,   \* "redis"
          <<115, 113, 108, 105, 116, 101>>,   \* "sqlite"
          <<111, 114, 97, 99, 108, 101>>   \* "oracle"
        >>,
     tools |->
        <<
          <<103, 105, 116>>,   \* "git"
          <<100, 111, 99, 107, 101, 114>>,   \* "docker"
          <<107, 117, 98, 101, 114, 110, 101, 116, 101, 115>>,   \* "kubernetes"
          <<106, 101, 110, 107, 105, 110, 115>>,   \* "jenkins"
          <<106, 105, 114, 97>>,   \* "jira"
          <<99, 111, 110, 102, 108, 117, 101, 110, 99, 101>>,   \* "confluence"
          <<97, 119, 115>>,   \* "aws"
          <<97, 122, 117, 114, 101>>,   \* "azure"
          <<103, 99, 112>>   \* "gcp"
        >>]

\* line 506
CvJuniorWords ==
    <<
      <<106, 117, 110, 105, 111, 114>>,   \* "junior"
      <<101, 110, 116, 114, 121>>,   \* "entry"
      <<103, 114, 97, 100, 117, 97, 116, 101>>,   \* "graduate"
      <<105, 110, 116, 101, 114, 110>>   \* "intern"
    >>

\* line 509
CvSeniorWords ==
    <<
      <<115, 101, 110, 105, 111, 114>>,   \* "senior"
      <<108, 101, 97, 100>>,   \* "lead"
      <<97, 114, 99, 104, 105, 116, 101, 99, 116>>,   \* "architect"
      <<112, 114, 105, 110, 99, 105, 112, 97, 108>>   \* "principal"
    >>

\* line 512
CvMidWords ==
    <<
      <<109, 105, 100>>,   \* "mid"
      <<105, 110, 116, 101, 114, 109, 101, 100, 105, 97, 116, 101>>,   \* "intermediate"
      <<51>>,   \* "3"
      <<52>>,   \* "4"
      <<53>>   \* "5"
    >>

\* line 576
JobSeniorWords ==
    <<
      <<115, 101, 110, 105, 111, 114>>,   \* "senior"
      <<108, 101, 97, 100>>,   \* "lead"
      <<97, 114, 99, 104, 105, 116, 101, 99, 116>>,   \* "architect"
      <<112, 114, 105, 110, 99, 105, 112, 97, 108>>,   \* "principal"
      <<53, 43>>,   \* "5+"
      <<54, 43>>,   \* "6+"
      <<55, 43>>,   \* "7+"
      <<56, 43>>,   \* "8+"
      <<57, 43>>,   \* "9+"
      <<49, 48, 43>>   \* "10+"
    >>

\* line 579
JobJuniorWords ==
    <<
      <<106, 117, 110, 105, 111, 114>>,   \* "junior"
      <<101, 110, 116, 114, 121>>,   \* "entry"
      <<103, 114, 97, 100, 117, 97, 116, 101>>,   \* "graduate"
      <<105, 110, 116, 101, 114, 110>>,   \* "intern"
      <<49, 45, 51>>,   \* "1-3"
      <<48, 45, 50>>   \* "0-2"
    >>

\* line 582
JobMidWords ==
    <<
      <<109, 105, 100>>,   \* "mid"
      <<105, 110, 116, 101, 114, 109, 101, 100, 105, 97, 116, 101>>,   \* "intermediate"
      <<51, 45, 53>>,   \* "3-5"
      <<52, 45, 54>>   \* "4-6"
    >>

S_3to5    == <<51, 45, 53>>   \* "3-5"
S_1to3    == <<49, 45, 51>>   \* "1-3"
S_bachelor == <<98, 97, 99, 104, 101, 108, 111, 114>>   \* "bachelor"

\* lines 496-497 and 506-514
CvExperience(cv_lower) ==
    IF AnyIn(CvJuniorWords, cv_lower)
    THEN [experience_level |-> "junior", years_experience |-> S_1to2]
    ELSE IF AnyIn(CvSeniorWords, cv_lower)
    THEN [experience_level |-> "senior", years_experience |-> S_5plus]
    ELSE IF AnyIn(CvMidWords, cv_lower)
    THEN [experience_level |-> "mid-level", years_experience |-> S_3to5]
    ELSE [experience_level |-> "unknown", years_experience |-> S_unknown]

\* _fallback_skill_extraction, lines 480-516
FallbackSkillExtractionResult(text) ==
    LET cv_lower == Lower(text)
        titled(words) == LET found == FoundIn(words, cv_lower)
                         IN  [k \in 1..Len(found) |-> Title(found[k])]
    IN  [technical_skills |->
             PyDict([c \in DOMAIN CommonSkills |-> PyList(titled(CommonSkills[c]))]),
         soft_skills |-> <<>>]
        @@ CvExperience(cv_lower)

\* the tests of lines 541-570 in their order: the category, the words
\* looked for, the name appended when one of them is found
RequirementRules ==
    <<
      [category |-> "programming_languages",
       words |-> <<<<112, 121, 116, 104, 111, 110>>>>,
       name |-> <<112, 121, 116, 104, 111, 110>>],   \* "python" -> "python"
      [category |-> "programming_languages",
       words |-> <<<<106, 97, 118, 97>>>>,
       name |-> <<106, 97, 118, 97>>],   \* "java" -> "java"
      [category |-> "programming_languages",
       words |-> <<<<106, 97, 118, 97, 115, 99, 114, 105, 112, 116>>>>,
       name |-> <<106, 97, 118, 97, 115, 99, 114, 105, 112, 116>>],   \* "javascript" -> "javascript"
      [category |-> "frameworks",
       words |-> <<<<100, 106, 97, 110, 103, 111>>, <<102, 108, 97, 115, 107>>>>,
       name |-> <<100, 106, 97, 110, 103, 111, 47, 102, 108, 97, 115, 107>>],   \* "django" or "flask" -> "django/flask"
      [category |-> "frameworks",
       words |-> <<<<115, 112, 114, 105, 110, 103>>>>,
       name |-> <<115, 112, 114, 105, 110, 103>>],   \* "spring" -> "spring"
      [category |-> "cloud_platforms",
       words |-> <<<<97, 119, 115>>, <<97, 122, 117, 114, 101>>, <<103, 99, 112>>>>,
       name |-> <<99, 108, 111, 117, 100, 32, 112, 108, 97, 116, 102, 111, 114, 109, 115>>],   \* "aws" or "azure" or "gcp" -> "cloud platforms"
      [category |-> "tools",
       words |-> <<<<100, 111, 99, 107, 101, 114>>>>,
       name |-> <<100, 111, 99, 107, 101, 114>>],   \* "docker" -> "docker"
      [category |-> "tools",
       words |-> <<<<107, 117, 98, 101, 114, 110, 101, 116, 101, 115>>>>,
       name |-> <<107, 117, 98, 101, 114, 110, 101, 116, 101, 115>>],   \* "kubernetes" -> "kubernetes"
      [category |-> "tools",
       words |-> <<<<99, 105, 47, 99, 100>>, <<106, 101, 110, 107, 105, 110, 115>>>>,
       name |-> <<99, 105, 47, 99, 100>>],   \* "ci/cd" or "jenkins" -> "ci/cd"
      [category |-> "architecture",
       words |-> <<<<109, 105, 99, 114, 111, 115, 101, 114, 118, 105, 99, 101, 115>>>>,
       name |-> <<109, 105, 99, 114, 111, 115, 101, 114, 118, 105, 99, 101, 115>>],   \* "microservices" -> "microservices"
      [category |-> "architecture",
       words |-> <<<<115, 121, 115, 116, 101, 109, 32, 100, 101, 115, 105, 103, 110>>>>,
       name |-> <<115, 121, 115, 116, 101, 109, 32, 100, 101, 115, 105, 103, 110>>]   \* "system design" -> "system design"
    >>

\* the keys of required_skills, lines 531-538
RequirementCategories ==
    {"programming_languages", "frameworks", "databases", "tools",
     "cloud_platforms", "architecture"}

RECURSIVE RequiredIn(_, _, _)
\* the names the rules from k on append to one category
RequiredIn(category, job_lower, k) ==
    IF k > Len(RequirementRules) THEN <<>>
    ELSE (IF RequirementRules[k].category = category
             /\ AnyIn(RequirementRules[k].words, job_lower)
          THEN <<RequirementRules[k].name>> ELSE <<>>)
         \o RequiredIn(category, job_lower, k + 1)

\* lines 573-584
JobExperience(job_lower) ==
    IF AnyIn(JobSeniorWords, job_lower)
    THEN [years_experience |-> S_5plus, experience_level |-> "senior"]
    ELSE IF AnyIn(JobJuniorWords, job_lower)
    THEN [years_experience |-> S_1to3, experience_level |-> "junior"]
    ELSE IF AnyIn(JobMidWords, job_lower)
    THEN [years_experience |-> S_3to5, experience_level |-> "mid-level"]
    ELSE [years_experience |-> S_unknown, experience_level |-> "unknown"]

\* _fallback_requirement_extraction, lines 528-598
FallbackRequirementExtractionResult(text) ==
    LET job_lower == Lower(text)
    IN  [required_skills |->
             [technical_skills |->
                  PyDict([c \in RequirementCategories |->
                             PyList(RequiredIn(c, job_lower, 1))]),
              soft_skills |-> <<>>],
         experience_requirements |-> JobExperience(job_lower),
         education_requirements |->
             [degree_level |-> IF Contains(job_lower, S_bachelor)
                               THEN "bachelor's degree or higher" ELSE "unknown"]]

FallbackSkillExtraction ==
    /\ pc \in {"text", "requirements"}
    /\ extracted_skills' = FallbackSkillExtractionResult(cv_text)
    /\ pc' = IF pc = "text" THEN "skills" ELSE "extracted"
    /\ UNCHANGED <<cv_text, job_description, extracted_requirements>>
    /\ UNCHANGED <<gapVars, reportVars, scoringVars, aggregateVars, analysisVars,
                 comprehensiveVars, workflowVars>>

FallbackRequirementExtraction ==
    /\ pc \in {"text", "skills"}
    /\ extracted_requirements' = FallbackRequirementExtractionResult(job_description)
    /\ pc' = IF pc = "text" THEN "requirements" ELSE "extracted"
    /\ UNCHANGED <<cv_text, job_description, extracted_skills>>
    /\ UNCHANGED <<gapVars, reportVars, scoringVars, aggregateVars, analysisVars,
                 comprehensiveVars, workflowVars>>

\* the phrases a text is put together from
TextPhrases ==
    <<
      <<83, 101, 110, 105, 111, 114, 32>>,   \* "Senior "
      <<74, 117, 110, 105, 111, 114, 32>>,   \* "Junior "
      <<80, 121, 116, 104, 111, 110, 32>>,   \* "Python "
      <<68, 111, 99, 107, 101, 114, 32>>,   \* "Docker "
      <<77, 105, 100, 45, 108, 101, 118, 101, 108, 32>>,   \* "Mid-level "
      <<70, 108, 97, 115, 107, 32>>   \* "Flask "
    >>

\* test_batch_analyze_cvs, line 223: "Python Developer with 5 years experience"
S_Cv1Content ==
    <<80, 121, 116, 104, 111, 110, 32, 68, 101, 118, 101, 108, 111, 112, 101, 114, 32, 119, 105, 116, 104, 32, 53, 32, 121, 101, 97, 114, 115, 32, 101, 120, 112, 101, 114, 105, 101, 110, 99, 101>>

\* line 224: "Java Developer with 3 years experience"
S_Cv2Content ==
    <<74, 97, 118, 97, 32, 68, 101, 118, 101, 108, 111, 112, 101, 114, 32, 119, 105, 116, 104, 32, 51, 32, 121, 101, 97, 114, 115, 32, 101, 120, 112, 101, 114, 105, 101, 110, 99, 101>>

\* line 232: "Python Developer position"
S_JdContent ==
    <<80, 121, 116, 104, 111, 110, 32, 68, 101, 118, 101, 108, 111, 112, 101, 114, 32, 112, 111, 115, 105, 116, 105, 111, 110>>

RECURSIVE JoinPhrases(_, _)
\* the phrases whose index is chosen, in their order
JoinPhrases(k, chosen) ==
    IF k > Len(TextPhrases) THEN <<>>
    ELSE (IF k \in chosen THEN TextPhrases[k] ELSE <<>>) \o JoinPhrases(k + 1, chosen)

\* texts: every choice of at most MaxPhrases phrases, and the texts of the
\* batch test
ExtractTexts ==
    {JoinPhrases(1, chosen) :
        chosen \in {c \in SUBSET (1..Len(TextPhrases)) : Cardinality(c) <= MaxPhrases}}
    \cup {S_Cv1Content, S_Cv2Content, S_JdContent}

S_JuniorText == JoinPhrases(1, {2, 3})      \* "Junior Python "
S_SeniorText == JoinPhrases(1, {1, 3, 4})   \* "Senior Python Docker "

InitExtract ==
    /\ pc = "text"
    /\ cv_text \in ExtractTexts
    /\ job_description \in ExtractTexts
    /\ extracted_skills = Unset
    /\ extracted_requirements = Unset
    /\ NoGap /\ NoReport /\ NoScoring /\ NoAggregate /\ NoAnalysis
    /\ NoComprehensive /\ NoWorkflow

NextExtract == FallbackSkillExtraction \/ FallbackRequirementExtraction

SpecExtract == InitExtract /\ [][NextExtract]_vars

-----------------------------------------------------------------------------
(* CVAnalyzer._generate_overall_assessment and the functions it calls      *)

\* An item of a strengths, weaknesses or recommendations list: a fixed text,
\* followed (in the f-strings) by the joined names of "with".
Note(text, names) == [msg |-> text, with |-> names]

\* seq[:n]
Take(seq, n) == SubSeq(seq, 1, IF Len(seq) < n THEN Len(seq) ELSE n)

RECURSIVE RSum(_)
\* sum(scores)
RSum(scores) == IF scores = <<>> THEN R(0) ELSE RAdd(Head(scores), RSum(Tail(scores)))

\* lines 284-297: the component scores that are available
ComponentScores(gaps, llm) ==
    (IF "overall_score" \in DOMAIN llm /\ RGt(llm.overall_score, R(0))
     THEN <<llm.overall_score>> ELSE <<>>)
    \o <<RSub(R(100), Get(gaps, "gap_score", R(0)))>>
    \o (IF "experience_assessment" \in DOMAIN llm
        THEN <<Get(llm.experience_assessment, "experience_score", R(50))>> ELSE <<>>)

\* lines 300-315: the single score of the skill-based path
FallbackScore(cv, job, gaps) ==
    LET base_score == RSub(R(100), Get(gaps, "gap_score", R(0)))
        cv_exp == Lower(Get(cv, "years_experience", S_unknown))
        job_exp == Lower(Get(Get(job, "experience_requirements", EmptyDict),
                             "years_experience", S_unknown))
    IN  IF Contains(cv_exp, S_junior) /\ Contains(job_exp, S_senior)
        THEN RSub(base_score, R(30))
        ELSE IF Contains(cv_exp, S_senior) /\ Contains(job_exp, S_junior)
        THEN RAdd(base_score, R(10))
        ELSE base_score

\* lines 283-319
OverallScore(cv, job, gaps, llm) ==
    LET collected == ComponentScores(gaps, llm)
        scores == IF Len(collected) < 2 THEN <<FallbackScore(cv, job, gaps)>>
                  ELSE collected
    IN  RDiv(RSum(scores), Len(scores))

\* one strength per non-empty category, lines 435-442
CategoryStrength(tech, key, text, n) ==
    IF key \in DOMAIN tech.val /\ tech.val[key].val # <<>>
    THEN <<Note(text, Take(tech.val[key].val, n))>> ELSE <<>>

\* _extract_strengths_from_cv, lines 429-447; "k in tech_skills" on a flat
\* list is false for these keys
ExtractStrengthsFromCv(cv) ==
    Take((IF "technical_skills" \in DOMAIN cv /\ IsDict(cv.technical_skills)
          THEN CategoryStrength(cv.technical_skills, "programming_languages",
                                "Strong programming skills: ", 3)
               \o CategoryStrength(cv.technical_skills, "frameworks",
                                   "Experience with frameworks: ", 2)
               \o CategoryStrength(cv.technical_skills, "tools",
                                   "Proficient with tools: ", 2)
          ELSE <<>>)
         \o (IF "experience_level" \in DOMAIN cv /\ cv.experience_level # "unknown"
             THEN <<Note("Appropriate experience level: ", <<cv.experience_level>>)>>
             ELSE <<>>),
         3)

\* _extract_weaknesses_from_gaps, lines 449-467
ExtractWeaknessesFromGaps(gaps) ==
    LET missing_tech == Get(gaps, "missing_technical_skills", <<>>)
        missing_tools == Get(gaps, "missing_tools", <<>>)
        gap_score == Get(gaps, "gap_score", R(0))
    IN  Take((IF missing_tech # <<>>
              THEN <<Note("Missing technical skills: ", Take(missing_tech, 3))>>
              ELSE <<>>)
             \o (IF missing_tools # <<>>
                 THEN <<Note("Missing tools: ", Take(missing_tools, 2))>> ELSE <<>>)
             \o (IF RGt(gap_score, R(50))
                 THEN <<Note("Significant skill gaps identified", <<>>)>>
                 ELSE IF RGt(gap_score, R(20))
                 THEN <<Note("Moderate skill gaps identified", <<>>)>>
                 ELSE <<>>),
             3)

\* _generate_recommendations, lines 356-397
GenerateRecommendations(cv, job, gaps, llm) ==
    LET from_llm == Get(llm, "recommendations", <<>>)
        missing_skills == Get(gaps, "missing_technical_skills", <<>>)
        training == IF missing_skills # <<>>
                    THEN <<Note("Consider training in: ", Take(missing_skills, 3))>>
                    ELSE <<>>
        experience ==
            IF "experience_assessment" \in DOMAIN llm
               /\ RLt(Get(llm.experience_assessment, "experience_score", R(0)), R(70))
            THEN <<Note("Consider additional experience in relevant technologies", <<>>)>>
            ELSE <<>>
        specific == from_llm \o training \o experience
        general ==
            IF Len(specific) < 3
            THEN <<Note("Schedule technical interview to assess practical skills", <<>>),
                   Note("Consider probationary period for skill development", <<>>)>>
            ELSE <<>>
    IN  Take(specific \o general, 5)

\* the record built at lines 273-280
InitialAssessment ==
    [overall_score |-> R(0),
     strengths |-> <<>>,
     weaknesses |-> <<>>,
     recommendations |-> <<>>,
     risk_level |-> "low",
     hiring_recommendation |-> "consider"]

\* lines 345-349
OverqualificationFields(gaps) ==
    IF "overqualification_risk" \in DOMAIN gaps
    THEN [overqualification_risk |-> gaps.overqualification_risk,
          retention_risk |-> Get(gaps, "retention_risk", "medium"),
          risk_factors |-> Get(gaps, "risk_factors", <<>>)]
    ELSE EmptyDict

\* the whole function, lines 259-354
GenerateOverallAssessmentResult(cv, job, gaps, llm) ==
    LET score == OverallScore(cv, job, gaps, llm)
    IN  [overall_score |-> score,
         strengths |->
             IF "strengths" \in DOMAIN llm /\ llm.strengths # <<>>
             THEN llm.strengths ELSE ExtractStrengthsFromCv(cv),
         weaknesses |->
             IF "weaknesses" \in DOMAIN llm /\ llm.weaknesses # <<>>
             THEN llm.weaknesses ELSE ExtractWeaknessesFromGaps(gaps),
         recommendations |-> GenerateRecommendations(cv, job, gaps, llm),
         risk_level |-> DetermineRiskLevelResult(score, gaps),
         hiring_recommendation |-> DetermineHiringRecommendationResult(score, gaps)]
        @@ OverqualificationFields(gaps)

GenerateOverallAssessment ==
    /\ pc = "gaps"
    /\ assessment' = GenerateOverallAssessmentResult(cv_skills, job_requirements,
                                                     skill_gaps, llm_analysis)
    /\ pc' = "assessed"
    /\ UNCHANGED <<cv_skills, job_requirements, skill_gaps, llm_analysis,
                   overall_score, risk_level, hiring_recommendation,
                   cv_analysis, interview_scores, final_recommendation,
                   question, response, scoring_result>>
    /\ UNCHANGED <<aggregateVars, analysisVars, extractVars, comprehensiveVars,
                 workflowVars>>

\* candidate records: a years_experience label or none, and two records as
\* _fallback_skill_extraction returns them
AssessCvRecords ==
    LET with_skills == [technical_skills |->
                            PyDict([programming_languages |-> PyList(<<S_Python, S_java>>),
                                    frameworks |-> PyList(<<>>)]),
                        experience_level |-> "senior"]
        without == [technical_skills |-> PyDict([c \in CvCategories |-> PyList(<<>>)]),
                    experience_level |-> "unknown"]
    IN  {with_skills, without}
        \cup {r @@ [years_experience |-> y] :
                 r \in {with_skills, without}, y \in {S_1to2, S_junior, S_Senior}}
        \cup {FallbackSkillExtractionResult(t) : t \in {S_JuniorText, S_SeniorText}}

\* job records: a years_experience label, or no experience_requirements, and
\* two records as _fallback_requirement_extraction returns them
AssessJobRecords ==
    {[required_skills |-> [technical_skills |-> PyDict([c \in JobCategories |-> PyList(<<>>)])]]}
    \cup {[required_skills |->
               [technical_skills |-> PyDict([c \in JobCategories |-> PyList(<<>>)])],
           experience_requirements |-> [years_experience |-> y]] :
             y \in {S_5plus, S_senior, S_Junior}}
    \cup {FallbackRequirementExtractionResult(t) : t \in {S_JuniorText, S_SeniorText}}

\* gap records with gap_score in [0, 100]: as _calculate_skill_gaps builds
\* them, or with gap_score alone (as the tests pass them), or empty
AssessGapRecords ==
    {[missing_technical_skills |-> IF g = R(0) THEN <<>> ELSE <<S_docker>>,
      missing_tools |-> <<>>,
      gap_score |-> g] @@ RiskFields(x) :
        g \in {R(0), R(15), Rat(100, 3), R(100)},
        x \in {None, "senior_applying_for_junior"}}
    \cup {[gap_score |-> g] : g \in {R(0), R(15), Rat(100, 3), R(100)}}
    \cup {EmptyDict}

\* external analysis records: every key optional, scores in [0, 100]
LlmRecords ==
    LET Score == {EmptyDict} \cup {[overall_score |-> v] : v \in {R(0), R(80), R(100)}}
        Experience ==
            {EmptyDict, [experience_assessment |-> EmptyDict]}
            \cup {[experience_assessment |-> [experience_score |-> v]] :
                     v \in {R(0), R(60), R(100)}}
        Texts ==
            {EmptyDict,
             [strengths |-> <<Note("Good technical skills", <<>>)>>,
              weaknesses |-> <<Note("Limited experience", <<>>)>>]}
        Recommendations ==
            {EmptyDict,
             [recommendations |-> <<Note("Consider additional training", <<>>)>>],
             [recommendations |-> [i \in 1..5 |-> Note("Recommendation", <<i>>)]]}
    IN  {a @@ b @@ c @@ d :
            a \in Score, b \in Experience, c \in Texts, d \in Recommendations}

InitAssess ==
    /\ pc = "gaps"
    /\ cv_skills \in AssessCvRecords
    /\ job_requirements \in AssessJobRecords
    /\ skill_gaps \in AssessGapRecords
    /\ llm_analysis \in LlmRecords
    /\ assessment = Unset
    /\ overall_score = Unset
    /\ risk_level = Unset
    /\ hiring_recommendation = Unset
    /\ cv_analysis = Unset
    /\ interview_scores = Unset
    /\ final_recommendation = Unset
    /\ question = Unset
    /\ response = Unset
    /\ scoring_result = Unset
    /\ NoAggregate /\ NoAnalysis /\ NoExtract /\ NoComprehensive /\ NoWorkflow

NextAssess == GenerateOverallAssessment

SpecAssess == InitAssess /\ [][NextAssess]_vars

-----------------------------------------------------------------------------
(* ReportGenerator._generate_final_recommendation                          *)

\* the thresholds of lines 714-721
RecommendationBand(score) ==
    IF RGe(score, R(85)) THEN "strong_hire"
    ELSE IF RGe(score, R(70)) THEN "hire"
    ELSE IF RGe(score, R(50)) THEN "consider"
    ELSE "reject"

\* line 711 with the two weights exchanged
WeightedScore_WeightsSwapped(cv_score, interview_score) ==
    RAdd(RMul(cv_score, Rat(6, 10)),
         RMul(RMul(interview_score, R(10)), Rat(4, 10)))

\* line 711: (cv_score * 0.4) + (interview_score * 10 * 0.6)
WeightedScore(cv_score, interview_score) ==
    RAdd(RMul(cv_score, Rat(4, 10)),
         RMul(RMul(interview_score, R(10)), Rat(6, 10)))

\* lines 706-721
GenerateFinalRecommendationResult(cv, interview) ==
    LET cv_score == Get(Get(cv, "overall_assessment", EmptyDict), "overall_score", R(0))
        interview_score ==
            Get(Get(interview, "overall_assessment", EmptyDict), "overall_score", R(0))
    IN  RecommendationBand(WeightedScore(cv_score, interview_score))

GenerateFinalRecommendation ==
    /\ pc = "report"
    /\ final_recommendation' =
           GenerateFinalRecommendationResult(cv_analysis, interview_scores)
    /\ pc' = "recommended"
    /\ UNCHANGED <<cv_skills, job_requirements, skill_gaps, llm_analysis, assessment,
                   overall_score, risk_level, hiring_recommendation,
                   cv_analysis, interview_scores,
                   question, response, scoring_result>>
    /\ UNCHANGED <<aggregateVars, analysisVars, extractVars, comprehensiveVars,
                 workflowVars>>

\* CV analysis records: an overall_assessment with its score and its own
\* recommendation, or a record without one (generate_batch_reports' default {})
ReportCvAnalyses ==
    {[overall_assessment |->
          [overall_score |-> c, hiring_recommendation |-> h, risk_level |-> "high"]] :
        c \in {x \in Scores : RGe(x, R(0)) /\ RLe(x, R(100))},
        h \in {"strong_hire", "consider_with_caution"}}
    \cup {EmptyDict, [overall_assessment |-> EmptyDict]}

\* interview records: the aggregate's score with its own recommendation
ReportInterviewScores ==
    {[overall_assessment |-> [overall_score |-> Rat(k, InterviewDen), recommendation |-> r]] :
        k \in 0..(10 * InterviewDen), r \in {"strong_hire", "reject"}}
    \cup {EmptyDict, [overall_assessment |-> EmptyDict]}

InitFinal ==
    /\ pc = "report"
    /\ cv_analysis \in ReportCvAnalyses
    /\ interview_scores \in ReportInterviewScores
    /\ final_recommendation = Unset
    /\ cv_skills = Unset
    /\ job_requirements = Unset
    /\ skill_gaps = Unset
    /\ llm_analysis = Unset
    /\ assessment = Unset
    /\ overall_score = Unset
    /\ risk_level = Unset
    /\ hiring_recommendation = Unset
    /\ question = Unset
    /\ response = Unset
    /\ scoring_result = Unset
    /\ NoAggregate /\ NoAnalysis /\ NoExtract /\ NoComprehensive /\ NoWorkflow

NextFinal == GenerateFinalRecommendation

SpecFinal == InitFinal /\ [][NextFinal]_vars

-----------------------------------------------------------------------------
(* InterviewScorer._fallback_scoring                                       *)

S_technical   == <<116, 101, 99, 104, 110, 105, 99, 97, 108>>   \* "technical"
S_programming == <<112, 114, 111, 103, 114, 97, 109, 109, 105, 110, 103>>   \* "programming"
S_database    == <<100, 97, 116, 97, 98, 97, 115, 101>>   \* "database"
S_api         == <<97, 112, 105>>   \* "api"
S_algorithm   == <<97, 108, 103, 111, 114, 105, 116, 104, 109>>   \* "algorithm"

\* technical_keywords, line 461
TechnicalKeywords == <<S_python, S_java, S_database, S_api, S_algorithm>>

\* lines 450-457
LengthBand(response_length) ==
    IF response_length < 50 THEN 3
    ELSE IF response_length < 150 THEN 5
    ELSE IF response_length < 300 THEN 7
    ELSE 8

RECURSIVE KeywordMatches(_, _)
\* sum(1 for keyword in keywords if keyword in response_lower), line 462
KeywordMatches(keywords, response_lower) ==
    IF keywords = <<>> THEN 0
    ELSE (IF Contains(response_lower, Head(keywords)) THEN 1 ELSE 0)
         + KeywordMatches(Tail(keywords), response_lower)

Min(a, b) == IF a < b THEN a ELSE b

\* lines 445-463 without the min(10, .) of line 463
FallbackOverallScore_NoCap(q, r) ==
    LET base == LengthBand(Len(r))
    IN  IF Contains(Lower(q), S_technical) \/ Contains(Lower(q), S_programming)
        THEN base + KeywordMatches(TechnicalKeywords, Lower(r))
        ELSE base

\* lines 445-463
FallbackOverallScore(q, r) ==
    LET question_lower == Lower(q)
        response_lower == Lower(r)
        base == LengthBand(Len(r))
    IN  IF Contains(question_lower, S_technical) \/ Contains(question_lower, S_programming)
        THEN Min(10, base + KeywordMatches(TechnicalKeywords, response_lower))
        ELSE base

\* the record returned at lines 465-482
FallbackScoringResult(q, r) ==
    LET score == FallbackOverallScore(q, r)
    IN  [overall_score |-> score,
         criteria_scores |->
             [technical_knowledge |-> score,
              communication |-> Min(10, score + 1),
              problem_solving |-> score,
              cultural_fit |-> 6],
         strengths |-> <<"Fallback scoring used">>,
         weaknesses |-> <<"Detailed analysis unavailable">>,
         feedback |-> "Fallback scoring method used due to processing error",
         recommendation |-> IF score >= 6 THEN "consider" ELSE "reject",
         confidence |-> 50,
         metadata |-> [fallback_scoring |-> TRUE, response_length |-> Len(r)]]

FallbackScoring ==
    /\ pc = "asked"
    /\ scoring_result' = FallbackScoringResult(question, response)
    /\ pc' = "scored"
    /\ UNCHANGED <<cv_skills, job_requirements, skill_gaps, llm_analysis, assessment,
                   overall_score, risk_level, hiring_recommendation,
                   cv_analysis, interview_scores, final_recommendation,
                   question, response>>
    /\ UNCHANGED <<aggregateVars, analysisVars, extractVars, comprehensiveVars,
                 workflowVars>>

\* questions: with "Technical", with "PROGRAMMING", with neither, empty
S_Q_Technical   == <<84, 101, 99, 104, 110, 105, 99, 97, 108, 32, 115, 107, 105, 108, 108, 115>>   \* "Technical skills"
S_Q_Programming == <<89, 111, 117, 114, 32, 80, 82, 79, 71, 82, 65, 77, 77, 73, 78, 71>>   \* "Your PROGRAMMING"
S_Q_Team        == <<84, 101, 97, 109, 32, 119, 111, 114, 107>>   \* "Team work"

Questions == {S_Q_Technical, S_Q_Programming, S_Q_Team, <<>>}

\* the words a response is put together from, in mixed case; "JavaScript"
\* contains "java"
S_API        == <<65, 80, 73>>   \* "API"
S_Algorithm  == <<65, 108, 103, 111, 114, 105, 116, 104, 109>>   \* "Algorithm"
S_JavaScript == <<74, 97, 118, 97, 83, 99, 114, 105, 112, 116>>   \* "JavaScript"

ResponseWords == <<S_Python, S_JavaScript, S_database, S_API, S_Algorithm>>

RECURSIVE JoinChosen(_, _)
\* the words of ResponseWords whose index is chosen, each followed by a space
JoinChosen(k, chosen) ==
    IF k > Len(ResponseWords) THEN <<>>
    ELSE (IF k \in chosen THEN ResponseWords[k] \o <<32>> ELSE <<>>)
         \o JoinChosen(k + 1, chosen)

\* the chosen words, padded with "x" to the length wanted (when shorter)
BuildResponse(chosen, length) ==
    LET words == JoinChosen(1, chosen)
    IN  words \o [j \in 1..(length - Len(words)) |-> 120]

\* lengths on both sides of each band limit, and the 400 of the scenario
ResponseLengths == {0, 49, 50, 51, 149, 150, 299, 300, 400}

Responses ==
    {BuildResponse(chosen, length) :
        chosen \in SUBSET (1..Len(ResponseWords)), length \in ResponseLengths}

InitScoring ==
    /\ pc = "asked"
    /\ question \in Questions
    /\ response \in Responses
    /\ scoring_result = Unset
    /\ cv_skills = Unset
    /\ job_requirements = Unset
    /\ skill_gaps = Unset
    /\ llm_analysis = Unset
    /\ assessment = Unset
    /\ overall_score = Unset
    /\ risk_level = Unset
    /\ hiring_recommendation = Unset
    /\ cv_analysis = Unset
    /\ interview_scores = Unset
    /\ final_recommendation = Unset
    /\ NoAggregate /\ NoAnalysis /\ NoExtract /\ NoComprehensive /\ NoWorkflow

NextScoring == FallbackScoring

SpecScoring == InitScoring /\ [][NextScoring]_vars

-----------------------------------------------------------------------------
(* InterviewScorer.score_multiple_responses and the functions it calls     *)

\* floor of a fraction
RFloor(a) == a.n \div a.d

\* round(x, 2): the nearest multiple of 1/100, a tie going to the even one
Round2(x) ==
    LET scaled == RMul(x, R(100))
        low == RFloor(scaled)
        rest == RSub(scaled, R(low))
    IN  IF RGt(rest, Rat(1, 2)) THEN Rat(low + 1, 100)
        ELSE IF RLt(rest, Rat(1, 2)) THEN Rat(low, 100)
        ELSE IF low % 2 = 0 THEN Rat(low, 100)
        ELSE Rat(low + 1, 100)

\* every list of at most n elements of S
ListsOf(S, n) == UNION {[1..k -> S] : k \in 0..n}

RECURSIVE Sum(_)
\* sum of a list of integers
Sum(xs) == IF xs = <<>> THEN 0 ELSE Head(xs) + Sum(Tail(xs))

\* the criteria of line 79
DefaultCriteria == <<"technical_knowledge", "communication", "problem_solving", "cultural_fit">>

\* score_interview_response, lines 78-93: the fallback result, its metadata
\* replaced (scoring_timestamp, the wall clock, is left out)
ScoreInterviewResponse(q, r) ==
    [FallbackScoringResult(q, r) EXCEPT
        !.metadata = [question_length |-> Len(q),
                      response_length |-> Len(r),
                      evaluation_criteria |-> DefaultCriteria]]

\* line 125: not question or not response
Skipped(qr) == Get(qr, "question", <<>>) = <<>> \/ Get(qr, "response", <<>>) = <<>>

\* the loop of lines 121-132 numbering the entries by their place in the result
IndividualScores_Renumbered(qrs, i) ==
    LET kept == SelectSeq(SubSeq(qrs, i, Len(qrs)), LAMBDA qr : ~Skipped(qr))
    IN  [k \in 1..Len(kept) |->
            ScoreInterviewResponse(kept[k].question, kept[k].response)
                @@ [question_index |-> k - 1]]

RECURSIVE IndividualScores(_, _)
\* the loop of lines 121-132 from index i on
IndividualScores(qrs, i) ==
    IF i > Len(qrs) THEN <<>>
    ELSE (IF Skipped(qrs[i]) THEN <<>>
          ELSE <<ScoreInterviewResponse(qrs[i].question, qrs[i].response)
                     @@ [question_index |-> i - 1]>>)
         \o IndividualScores(qrs, i + 1)

\* [result.get("overall_score", 0) for result in individual_scores], line 291
OverallScores(individual) ==
    [k \in 1..Len(individual) |-> Get(individual[k], "overall_score", 0)]

\* statistics.variance: the sample variance, sum((x - mean)^2) / (n - 1)
Variance(scores) ==
    LET n == Len(scores)
        total == Sum(scores)
        squares == Sum([k \in 1..n |-> scores[k] * scores[k]])
    IN  Rat(n * squares - total * total, n * (n - 1))

\* _calculate_consistency_score, lines 290-299 (variance of two or more
\* numbers does not raise)
CalculateConsistencyScore(individual) ==
    LET scores == OverallScores(individual)
    IN  IF Len(scores) < 2 THEN R(100)
        ELSE Round2(RMax(R(0), RSub(R(100), RMul(Variance(scores), R(10)))))

\* lines 184-191
PerformanceLevel(average_score) ==
    IF RGe(average_score, Rat(85, 10)) THEN "excellent"
    ELSE IF RGe(average_score, R(7)) THEN "good"
    ELSE IF RGe(average_score, Rat(55, 10)) THEN "fair"
    ELSE "poor"

\* _determine_interview_recommendation, lines 315-322
DetermineInterviewRecommendation(average_score) ==
    IF RGe(average_score, Rat(85, 10)) THEN "strong_hire"
    ELSE IF RGe(average_score, R(7)) THEN "hire"
    ELSE IF RGe(average_score, Rat(55, 10)) THEN "consider"
    ELSE "reject"

RECURSIVE Concat(_)
\* the lists of a list, joined
Concat(lists) == IF lists = <<>> THEN <<>> ELSE Head(lists) \o Concat(Tail(lists))

\* how often x stands in seq
Count(seq, x) == Cardinality({k \in 1..Len(seq) : seq[k] = x})

\* position of the first x in seq
FirstIndex(seq, x) == CHOOSE k \in 1..Len(seq) : seq[k] = x /\ \A j \in 1..(k - 1) : seq[j] # x

RECURSIVE MostCommon(_, _, _)
\* Counter(seq).most_common(n) without the counts: by count, the one met
\* first before the others of the same count; done holds those already taken
MostCommon(seq, n, done) ==
    LET left == {seq[k] : k \in 1..Len(seq)} \ done
    IN  IF n = 0 \/ left = {} THEN <<>>
        ELSE LET best == CHOOSE x \in left :
                             \A y \in left :
                                 \/ Count(seq, x) > Count(seq, y)
                                 \/ /\ Count(seq, x) = Count(seq, y)
                                    /\ FirstIndex(seq, x) <= FirstIndex(seq, y)
             IN  <<best>> \o MostCommon(seq, n - 1, done \cup {best})

\* the key of every entry that has it
Field(individual, key) ==
    Concat([k \in 1..Len(individual) |-> Get(individual[k], key, <<>>)])

\* line 181
AverageScore(individual, total_score, num_questions) ==
    RDiv(R(total_score), num_questions)

\* _calculate_overall_assessment, lines 178-219
CalculateOverallAssessment(individual, total_score, num_questions) ==
    IF num_questions = 0
    THEN [overall_score |-> R(0), performance_level |-> "poor"]
    ELSE LET average_score == AverageScore(individual, total_score, num_questions)
         IN  [overall_score |-> Round2(average_score),
              performance_level |-> PerformanceLevel(average_score),
              total_questions |-> num_questions,
              consistency_score |-> CalculateConsistencyScore(individual),
              top_strengths |-> MostCommon(Field(individual, "strengths"), 3, {}),
              top_weaknesses |-> MostCommon(Field(individual, "weaknesses"), 3, {}),
              recommendation |-> DetermineInterviewRecommendation(average_score)]

\* the band counts of lines 241-253
ScoreDistribution(individual) ==
    LET scores == OverallScores(individual)
        In(level) == Cardinality({k \in 1..Len(scores) :
                                     PerformanceLevel(R(scores[k])) = level})
    IN  [excellent |-> In("excellent"), good |-> In("good"),
         fair |-> In("fair"), poor |-> In("poor")]

\* criteria_averages, lines 256-259: one average per criterion that has scores
CriteriaAverages(individual) ==
    IF individual = <<>> THEN EmptyDict
    ELSE [c \in {DefaultCriteria[k] : k \in 1..Len(DefaultCriteria)} |->
             Round2(RDiv(R(Sum([k \in 1..Len(individual) |->
                                   individual[k].criteria_scores[c]])),
                         Len(individual)))]

\* response_quality, lines 262-273
ResponseQuality(individual) ==
    IF individual = <<>> THEN EmptyDict
    ELSE LET lengths == [k \in 1..Len(individual) |->
                            individual[k].metadata.response_length]
             all == {lengths[k] : k \in 1..Len(lengths)}
         IN  [average_length |-> RDiv(R(Sum(lengths)), Len(lengths)),
              min_length |-> CHOOSE x \in all : \A y \in all : x <= y,
              max_length |-> CHOOSE x \in all : \A y \in all : x >= y]

\* _calculate_summary_statistics, lines 233-278
CalculateSummaryStatistics(individual) ==
    [score_distribution |-> ScoreDistribution(individual),
     criteria_averages |-> CriteriaAverages(individual),
     response_quality |-> ResponseQuality(individual)]

\* _generate_interview_recommendations, lines 336-371
GenerateInterviewRecommendations(overall, stats) ==
    LET level == Get(overall, "performance_level", "poor")
        by_level ==
            IF level = "excellent"
            THEN <<Note("Strong technical interview performance - proceed to next round", <<>>),
                   Note("Consider fast-track hiring process", <<>>)>>
            ELSE IF level = "good"
            THEN <<Note("Solid interview performance - recommend for next stage", <<>>),
                   Note("Schedule follow-up technical assessment if needed", <<>>)>>
            ELSE IF level = "fair"
            THEN <<Note("Moderate interview performance - consider additional assessments", <<>>),
                   Note("Review specific areas of weakness before proceeding", <<>>)>>
            ELSE <<Note("Poor interview performance - recommend rejection", <<>>),
                   Note("Consider providing constructive feedback", <<>>)>>
        by_consistency ==
            IF RLt(Get(overall, "consistency_score", R(50)), R(70))
            THEN <<Note("Inconsistent performance across questions - investigate further", <<>>)>>
            ELSE <<>>
        averages == stats.criteria_averages
        by_criteria ==
            Concat([k \in 1..Len(DefaultCriteria) |->
                       IF DefaultCriteria[k] \in DOMAIN averages
                          /\ RLt(averages[DefaultCriteria[k]], R(6))
                       THEN <<Note("Focus on improving ... skills", <<DefaultCriteria[k]>>)>>
                       ELSE <<>>])
    IN  Take(by_level \o by_consistency \o by_criteria, 5)

\* score_multiple_responses, lines 105-159, for a list of dicts
ScoreMultipleResponsesResult(qrs) ==
    LET individual == IndividualScores(qrs, 1)
        total_score == Sum(OverallScores(individual))
        overall == CalculateOverallAssessment(individual, total_score, Len(qrs))
        stats == CalculateSummaryStatistics(individual)
    IN  [individual_scores |-> individual,
         overall_assessment |-> overall,
         summary_statistics |-> stats,
         recommendations |-> GenerateInterviewRecommendations(overall, stats)]

ScoreMultipleResponses ==
    /\ pc = "interview"
    /\ results' = ScoreMultipleResponsesResult(questions_responses)
    /\ pc' = "aggregated"
    /\ UNCHANGED <<questions_responses, individual_scores, consistency_score>>
    /\ UNCHANGED <<gapVars, reportVars, scoringVars, analysisVars, extractVars,
                 comprehensiveVars, workflowVars>>

\* _calculate_consistency_score called with a list of scoring results
CalculateConsistency ==
    /\ pc = "scores"
    /\ consistency_score' = CalculateConsistencyScore(individual_scores)
    /\ pc' = "consistency"
    /\ UNCHANGED <<questions_responses, results, individual_scores>>
    /\ UNCHANGED <<gapVars, reportVars, scoringVars, analysisVars, extractVars,
                 comprehensiveVars, workflowVars>>

\* responses of 40, 200 and 400 characters, with none, one or two keywords
ShortResponse   == BuildResponse({}, 40)
MediumResponse  == BuildResponse({1}, 200)
LongResponse    == BuildResponse({1}, 400)
KeywordResponse == BuildResponse({1, 4}, 400)

\* question/response dicts: scored ones (3, 8, 9, 10 on the technical
\* question, 7 and 8 on the other), an empty response, an empty question, a
\* missing response key, an empty dict
QuestionResponsePairs ==
    {[question |-> S_Q_Technical, response |-> r] :
        r \in {ShortResponse, MediumResponse, LongResponse, KeywordResponse, <<>>}}
    \cup {[question |-> S_Q_Team, response |-> r] : r \in {MediumResponse, LongResponse}}
    \cup {[question |-> <<>>, response |-> MediumResponse],
          [question |-> S_Q_Technical],
          EmptyDict}

\* scoring results as other scorers may return them: any score in 0..10, or
\* a result without overall_score
DirectScoringResults ==
    {[overall_score |-> s] : s \in {0, 2, 9, 10}} \cup {[feedback |-> "none"]}

InitAggregate ==
    /\ \/ /\ pc = "interview"
          /\ questions_responses \in ListsOf(QuestionResponsePairs, MaxPairs)
          /\ individual_scores = Unset
       \/ /\ pc = "scores"
          /\ questions_responses = Unset
          /\ individual_scores \in ListsOf(DirectScoringResults, MaxPairs)
    /\ results = Unset
    /\ consistency_score = Unset
    /\ NoGap /\ NoReport /\ NoScoring /\ NoAnalysis /\ NoExtract /\ NoComprehensive
    /\ NoWorkflow

NextAggregate == ScoreMultipleResponses \/ CalculateConsistency

SpecAggregate == InitAggregate /\ [][NextAggregate]_vars

-----------------------------------------------------------------------------
(* CVAnalyzer.analyze_cv_against_job and batch_analyze_cvs, with           *)
(* FileUtils.read_file                                                     *)

\* the largest k with s[k] = c, 0 when there is none
LastIndexOf(s, c) ==
    LET at == {k \in 1..Len(s) : s[k] = c}
    IN  IF at = {} THEN 0 ELSE CHOOSE k \in at : \A j \in at : j <= k

\* Path(p).name: what follows the last "/"
PathName(p) == SubSeq(p, LastIndexOf(p, 47) + 1, Len(p))

\* Path(p).suffix: the name from its last "." on, when that is neither the
\* first nor the last character of the name
PathSuffix(p) ==
    LET name == PathName(p)
        dot == LastIndexOf(name, 46)
    IN  IF dot <= 1 \/ dot = Len(name) THEN <<>> ELSE SubSeq(name, dot, Len(name))

\* Path(p).stem: the name without its suffix
PathStem(p) ==
    LET name == PathName(p)
    IN  SubSeq(name, 1, Len(name) - Len(PathSuffix(p)))

IsSpace(c) == c \in {9, 10, 13, 32}

RECURSIVE Strip(_)
\* str.strip()
Strip(s) ==
    IF s = <<>> THEN s
    ELSE IF IsSpace(Head(s)) THEN Strip(Tail(s))
    ELSE IF IsSpace(s[Len(s)]) THEN Strip(SubSeq(s, 1, Len(s) - 1))
    ELSE s

S_txt  == <<46, 116, 120, 116>>       \* ".txt"
S_pdf  == <<46, 112, 100, 102>>       \* ".pdf"
S_docx == <<46, 100, 111, 99, 120>>   \* ".docx"
S_doc  == <<46, 100, 111, 99>>        \* ".doc"

\* A file: absent, or present with the text its reader finds in it; a reader
\* that raises (lines 68-70, 89-91, 109-111) gives "".
AbsentFile == [exists |-> FALSE]
UnreadableFile == [exists |-> TRUE, readable |-> FALSE]
TextFile(t) == [exists |-> TRUE, readable |-> TRUE, text |-> t]

\* read_text_file, lines 65-70
ReadTextFile(file) == IF file.readable THEN file.text ELSE <<>>

\* read_pdf_file and read_word_file, lines 82-91 and 103-111: the text of the
\* pages (paragraphs), each followed by a newline, stripped
ReadStripped(file) == IF file.readable THEN Strip(file.text \o <<10>>) ELSE <<>>

\* read_file, lines 123-139, for a path that is a string
ReadFile(fs, path) ==
    IF path \notin DOMAIN fs \/ ~fs[path].exists THEN <<>>
    ELSE LET extension == Lower(PathSuffix(path))
         IN  IF extension = S_txt THEN ReadTextFile(fs[path])
             ELSE IF extension = S_pdf THEN ReadStripped(fs[path])
             ELSE IF extension \in {S_docx, S_doc} THEN ReadStripped(fs[path])
             ELSE ReadTextFile(fs[path])

\* _perform_llm_analysis, lines 151-164
S_3to5years == <<51, 45, 53, 32, 121, 101, 97, 114, 115>>   \* "3-5 years"
S_javascript == <<106, 97, 118, 97, 115, 99, 114, 105, 112, 116>>   \* "javascript"

\* _perform_llm_analysis with a model score of 40
PerformLlmAnalysis_LowScore ==
    [overall_score |-> R(40),
     experience_assessment |-> [years_experience |-> S_3to5years,
                                experience_score |-> R(85)],
     recommendations |-> <<Note("Consider additional training", <<>>),
                           Note("Schedule technical interview", <<>>)>>,
     confidence |-> R(80)]

PerformLlmAnalysis ==
    [overall_score |-> R(75),
     skill_match |-> [required_skills |-> <<S_python, S_javascript>>,
                      missing_skills |-> <<S_docker>>,
                      skill_match_percentage |-> R(80)],
     experience_assessment |-> [years_experience |-> S_3to5years,
                                experience_score |-> R(85)],
     recommendations |-> <<Note("Consider additional training", <<>>),
                           Note("Schedule technical interview", <<>>)>>,
     confidence |-> R(80)]

\* _perform_comprehensive_analysis, lines 89-111; order fixes the order list()
\* gives the missing skills in
PerformComprehensiveAnalysis(cv_content, job_content, order) ==
    LET cv == FallbackSkillExtractionResult(cv_content)
        job == FallbackRequirementExtractionResult(job_content)
        llm == PerformLlmAnalysis
        gaps == CalculateSkillGapsResult(cv, job, order)
    IN  [cv_skills |-> cv,
         job_requirements |-> job,
         skill_gaps |-> gaps,
         llm_analysis |-> llm,
         overall_assessment |-> GenerateOverallAssessmentResult(cv, job, gaps, llm)]

\* the orders list() may give for these two texts
AnalysisOrders(cv_content, job_content) ==
    MissingOrders(FallbackSkillExtractionResult(cv_content),
                  FallbackRequirementExtractionResult(job_content))

IsStr(x) == "kind" \in DOMAIN x /\ x.kind = "str"

\* the record of lines 57 and 75
ErrorResult(message) == [error |-> message]

\* lines 52-75 without the test of lines 55-57
AnalyzeCvAgainstJobResults_NoEmptyTest(fs, cv_path, job_path) ==
    IF ~IsStr(cv_path) \/ ~IsStr(job_path)
    THEN {ErrorResult("TypeError")}
    ELSE LET cv_content == ReadFile(fs, cv_path.val)
             job_content == ReadFile(fs, job_path.val)
         IN  {PerformComprehensiveAnalysis(cv_content, job_content, order)
                  @@ [metadata |-> [cv_file |-> PathName(cv_path.val),
                                    job_description_file |-> PathName(job_path.val)]] :
                  order \in AnalysisOrders(cv_content, job_content)}

\* analyze_cv_against_job, lines 50-75: every result the call may give.
\* Path(None) raises TypeError inside the try; analysis_timestamp (the wall
\* clock) is left out of the metadata.
AnalyzeCvAgainstJobResults(fs, cv_path, job_path) ==
    IF ~IsStr(cv_path) \/ ~IsStr(job_path)
    THEN {ErrorResult("TypeError")}
    ELSE LET cv_content == ReadFile(fs, cv_path.val)
             job_content == ReadFile(fs, job_path.val)
         IN  IF cv_content = <<>> \/ job_content = <<>>
             THEN {ErrorResult("Failed to read input files")}
             ELSE {PerformComprehensiveAnalysis(cv_content, job_content, order)
                       @@ [metadata |-> [cv_file |-> PathName(cv_path.val),
                                         job_description_file |-> PathName(job_path.val)]] :
                       order \in AnalysisOrders(cv_content, job_content)}

AnalyzeCvAgainstJob ==
    /\ pc = "analyze"
    /\ analysis_result' \in AnalyzeCvAgainstJobResults(files, cv_file_path,
                                                      job_description_path)
    /\ pc' = "analyzed"
    /\ UNCHANGED <<files, cv_file_path, job_description_path, cv_files, batch_results>>
    /\ UNCHANGED <<gapVars, reportVars, scoringVars, aggregateVars, extractVars,
                 comprehensiveVars, workflowVars>>

\* results[key] = value on a dict
SetItem(d, key, value) == [k \in DOMAIN d \cup {key} |-> IF k = key THEN value ELSE d[k]]

RECURSIVE BatchFrom(_, _, _, _, _)
\* the loop of lines 618-628 from index k on, results holding the entries
\* made so far: every dict it may end with
BatchFrom(fs, paths, job_path, k, done) ==
    IF k > Len(paths) THEN {done}
    ELSE UNION {BatchFrom(fs, paths, job_path, k + 1,
                          SetItem(done, PathStem(paths[k].val), analysis)) :
                    analysis \in AnalyzeCvAgainstJobResults(fs, paths[k], job_path)}

\* batch_analyze_cvs, lines 616-630, for a list of string paths
BatchAnalyzeCvsResults(fs, paths, job_path) == BatchFrom(fs, paths, job_path, 1, EmptyDict)

BatchAnalyzeCvs ==
    /\ pc = "batch"
    /\ batch_results' \in BatchAnalyzeCvsResults(files, cv_files, job_description_path)
    /\ pc' = "batched"
    /\ UNCHANGED <<files, cv_file_path, job_description_path, cv_files, analysis_result>>
    /\ UNCHANGED <<gapVars, reportVars, scoringVars, aggregateVars, extractVars,
                 comprehensiveVars, workflowVars>>

\* the paths of the model: two CVs of the same name in two directories, a
\* PDF, and the job description
S_PathA  == <<97, 47, 99, 118, 46, 116, 120, 116>>   \* "a/cv.txt"
S_PathB  == <<98, 47, 99, 118, 46, 116, 120, 116>>   \* "b/cv.txt"
S_PathC  == <<99, 118, 50, 46, 80, 68, 70>>   \* "cv2.PDF"
S_PathJd == <<106, 111, 98, 95, 100, 101, 115, 99, 114, 105, 112, 116, 105, 111, 110, 46, 116, 120, 116>>   \* "job_description.txt"

S_Blank == <<32, 10>>   \* " \n"

\* the file systems: each file absent or present, one unreadable, one empty,
\* one PDF holding white space only
FileSystems ==
    {[p \in {S_PathA, S_PathB, S_PathC, S_PathJd} |->
         IF p = S_PathA THEN a ELSE IF p = S_PathB THEN b
         ELSE IF p = S_PathC THEN c ELSE j] :
        a \in {AbsentFile, TextFile(S_JuniorText)},
        b \in {AbsentFile, UnreadableFile, TextFile(<<>>), TextFile(S_SeniorText)},
        c \in {AbsentFile, TextFile(S_Blank), TextFile(S_Cv2Content)},
        j \in {AbsentFile, TextFile(S_SeniorText), TextFile(S_JdContent)}}

CvPaths == {PyStr(S_PathA), PyStr(S_PathB), PyStr(S_PathC)}

InitAnalysis ==
    /\ files \in FileSystems
    /\ job_description_path = PyStr(S_PathJd)
    /\ \/ /\ pc = "analyze"
          /\ cv_file_path \in CvPaths \cup {NoneRecord}
          /\ cv_files = Unset
       \/ /\ pc = "batch"
          /\ cv_file_path = Unset
          /\ cv_files \in ListsOf(CvPaths, MaxBatch)
    /\ analysis_result = Unset
    /\ batch_results = Unset
    /\ NoGap /\ NoReport /\ NoScoring /\ NoAggregate /\ NoExtract /\ NoComprehensive
    /\ NoWorkflow

NextAnalysis == AnalyzeCvAgainstJob \/ BatchAnalyzeCvs

SpecAnalysis == InitAnalysis /\ [][NextAnalysis]_vars

-----------------------------------------------------------------------------
(* CVAnalyzer._perform_comprehensive_analysis on two texts                 *)

\* lines 89-111: extraction, gaps, the stub model record and the assessment
PerformAnalysis ==
    /\ pc = "texts"
    /\ \E order \in AnalysisOrders(cv_text, job_description) :
          analysis_result' = PerformComprehensiveAnalysis(cv_text, job_description, order)
    /\ pc' = "analysis"
    /\ UNCHANGED <<files, cv_file_path, job_description_path, cv_files, batch_results>>
    /\ UNCHANGED <<gapVars, reportVars, scoringVars, aggregateVars, extractVars,
                 comprehensiveVars, workflowVars>>

\* analyze_cv_against_job passes on only texts that are not empty (line 55)
InitEndToEnd ==
    /\ pc = "texts"
    /\ cv_text \in ExtractTexts \ {<<>>}
    /\ job_description \in ExtractTexts \ {<<>>}
    /\ extracted_skills = Unset
    /\ extracted_requirements = Unset
    /\ files = Unset
    /\ cv_file_path = Unset
    /\ job_description_path = Unset
    /\ cv_files = Unset
    /\ analysis_result = Unset
    /\ batch_results = Unset
    /\ NoGap /\ NoReport /\ NoScoring /\ NoAggregate /\ NoComprehensive /\ NoWorkflow

NextEndToEnd == PerformAnalysis

SpecEndToEnd == InitEndToEnd /\ [][NextEndToEnd]_vars

-----------------------------------------------------------------------------
(* ReportGenerator.generate_comprehensive_report and generate_batch_reports *)
(* The report record is modelled by its cv_analysis, interview_scores,       *)
(* final_recommendation and the executive summary and risk assessment of     *)
(* its structured report. The other sections and the two report texts copy   *)
(* or format fields of the two inputs inside handlers of their own and       *)
(* change none of these; the generation timestamp is the wall clock.         *)

\* round(x, 1): the nearest multiple of 1/10, a tie going to the even one
Round1(x) ==
    LET scaled == RMul(x, R(10))
        low == RFloor(scaled)
        rest == RSub(scaled, R(low))
    IN  IF RGt(rest, Rat(1, 2)) THEN Rat(low + 1, 10)
        ELSE IF RLt(rest, Rat(1, 2)) THEN Rat(low, 10)
        ELSE IF low % 2 = 0 THEN Rat(low, 10)
        ELSE Rat(low + 1, 10)

\* x.get("overall_assessment", {}).get("overall_score", default)
AssessedScore(x, default) ==
    Get(Get(x, "overall_assessment", EmptyDict), "overall_score", default)

\* _get_performance_level, lines 727-736
GetPerformanceLevel(score) ==
    IF RGe(score, R(85)) THEN "Excellent"
    ELSE IF RGe(score, R(70)) THEN "Good"
    ELSE IF RGe(score, R(50)) THEN "Fair"
    ELSE "Poor"

\* line 241: (cv_score * 0.4) + (interview_score * 0.6)
SummaryScore(cv_score, interview_score) ==
    RAdd(RMul(cv_score, Rat(4, 10)), RMul(interview_score, Rat(6, 10)))

\* _generate_executive_summary, lines 236-247 and 270: the overall assessment
\* and the final recommendation of the summary
GenerateExecutiveSummary(cv, interview) ==
    LET cv_score == AssessedScore(cv, R(0))
        interview_score == AssessedScore(interview, R(0))
        score == SummaryScore(cv_score, interview_score)
    IN  [overall_assessment |->
             [cv_score |-> Round1(cv_score),
              interview_score |-> Round1(interview_score),
              overall_score |-> Round1(score),
              performance_level |-> GetPerformanceLevel(score)],
         final_recommendation |-> GenerateFinalRecommendationResult(cv, interview)]

\* lines 404-407
OverallRisk(cv_risk, interview_score) ==
    IF cv_risk = "high" \/ RLt(interview_score, R(5)) THEN "high"
    ELSE IF cv_risk = "low" /\ RGe(interview_score, R(7)) THEN "low"
    ELSE "medium"

\* lines 415-429: the risk factors, each with the number it shows
RiskFactors(cv, interview, interview_score) ==
    (IF "skill_gaps" \in DOMAIN cv /\ RGt(Get(cv.skill_gaps, "gap_score", R(0)), R(30))
     THEN <<Note("High skill gap score: ", <<Get(cv.skill_gaps, "gap_score", R(0))>>)>>
     ELSE <<>>)
    \o (IF RLt(interview_score, R(6))
        THEN <<Note("Low interview performance: ", <<interview_score>>)>> ELSE <<>>)
    \o (IF "overall_assessment" \in DOMAIN interview
           /\ RLt(Get(interview.overall_assessment, "consistency_score", R(100)), R(70))
        THEN <<Note("Inconsistent interview performance: ",
                    <<interview.overall_assessment.consistency_score>>)>>
        ELSE <<>>)

\* lines 434-447
MitigationStrategies(overall_risk) ==
    IF overall_risk = "high"
    THEN <<"Consider probationary period", "Implement additional training program",
           "Schedule follow-up assessments", "Assign mentor for onboarding">>
    ELSE IF overall_risk = "medium"
    THEN <<"Provide specific feedback", "Set clear performance expectations",
           "Monitor progress closely">>
    ELSE <<>>

\* lines 392-397 and 451-461: gap_score is a local bound only at line 417,
\* under "skill_gaps" in cv_analysis; without it line 454 raises
\* UnboundLocalError and the handler leaves red_flags as first built
RedFlags(cv, interview_score) ==
    IF "skill_gaps" \in DOMAIN cv
    THEN (IF RLt(interview_score, R(4))
          THEN <<"Very poor interview performance">> ELSE <<>>)
         \o (IF RGt(Get(cv.skill_gaps, "gap_score", R(0)), R(50))
             THEN <<"Significant skill gaps">> ELSE <<>>)
    ELSE <<>>

\* _generate_risk_assessment, lines 381-464
GenerateRiskAssessment(cv, interview) ==
    LET cv_risk == Get(Get(cv, "overall_assessment", EmptyDict), "risk_level", "medium")
        interview_score == AssessedScore(interview, R(5))
        overall_risk == OverallRisk(cv_risk, interview_score)
    IN  [overall_risk_level |-> overall_risk,
         risk_factors |-> RiskFactors(cv, interview, interview_score),
         mitigation_strategies |-> MitigationStrategies(overall_risk),
         red_flags |-> RedFlags(cv, interview_score)]

\* generate_comprehensive_report, lines 52-84
GenerateComprehensiveReportResult(cv, interview) ==
    [cv_analysis |-> cv,
     interview_scores |-> interview,
     structured_report |->
         [executive_summary |-> GenerateExecutiveSummary(cv, interview),
          risk_assessment |-> GenerateRiskAssessment(cv, interview)],
     final_recommendation |-> GenerateFinalRecommendationResult(cv, interview)]

GenerateComprehensiveReport ==
    /\ pc = "combine"
    /\ comprehensive_report' = GenerateComprehensiveReportResult(cv_analysis, interview_scores)
    /\ pc' = "combined"
    /\ UNCHANGED <<evaluations, batch_reports>>
    /\ UNCHANGED <<gapVars, reportVars, scoringVars, aggregateVars, analysisVars,
                 extractVars, workflowVars>>

RECURSIVE BatchReportsFrom(_, _, _)
\* the loop of lines 797-808 from index k on, done holding the entries made so
\* far: a later evaluation of the same candidate_name replaces the earlier one
BatchReportsFrom(evals, k, done) ==
    IF k > Len(evals) THEN done
    ELSE LET candidate_name == Get(evals[k], "candidate_name", "Unknown")
             report == GenerateComprehensiveReportResult(
                           Get(evals[k], "cv_analysis", EmptyDict),
                           Get(evals[k], "interview_scores", EmptyDict))
         IN  BatchReportsFrom(evals, k + 1, SetItem(done, candidate_name, report))

\* generate_batch_reports, lines 785-810
GenerateBatchReportsResult(evals) == BatchReportsFrom(evals, 1, EmptyDict)

GenerateBatchReports ==
    /\ pc = "evaluations"
    /\ batch_reports' = GenerateBatchReportsResult(evaluations)
    /\ pc' = "reports"
    /\ UNCHANGED <<comprehensive_report, evaluations>>
    /\ UNCHANGED <<gapVars, reportVars, scoringVars, aggregateVars, analysisVars,
                 extractVars, workflowVars>>

\* CV overall scores and gap scores around the limits the report reads
CombineCvScores == {R(0), R(40), R(50), R(70), Rat(260, 3), R(90), R(100)}

CombineGapScores == {R(0), R(30), R(31), R(50), R(51), R(100)}

\* a senior candidate's text against a junior job's, and a matching pair
S_SeniorCvText == JoinPhrases(1, {1, 3})     \* "Senior Python "

CombineTextPairs ==
    {<<S_SeniorCvText, S_JuniorText>>, <<S_SeniorText, S_SeniorText>>,
     <<S_JuniorText, S_SeniorText>>}

\* CV analysis records: as analyze_cv_against_job builds them from two texts,
\* records holding the fields the report reads, records without skill_gaps or
\* without overall_assessment, and the {} generate_batch_reports defaults to
CombineCvAnalyses ==
    UNION {{PerformComprehensiveAnalysis(p[1], p[2], order) :
               order \in AnalysisOrders(p[1], p[2])} : p \in CombineTextPairs}
    \cup {[overall_assessment |-> [overall_score |-> c, risk_level |-> r],
           skill_gaps |-> [gap_score |-> g]] :
             c \in CombineCvScores, r \in RiskValues, g \in CombineGapScores}
    \cup {[overall_assessment |-> [overall_score |-> c, risk_level |-> r]] :
             c \in CombineCvScores, r \in RiskValues}
    \cup {[skill_gaps |-> EmptyDict], EmptyDict}

\* interview records: the aggregate's score, with or without a consistency
\* score, a record without overall_assessment, and {}
CombineInterviewScores ==
    {[overall_assessment |-> [overall_score |-> Rat(k, InterviewDen)]] :
        k \in 0..(10 * InterviewDen)}
    \cup {[overall_assessment |->
              [overall_score |-> Rat(k, InterviewDen), consistency_score |-> s]] :
            k \in 0..(10 * InterviewDen), s \in {R(0), Rat(6967, 100), R(70), R(100)}}
    \cup {[summary_statistics |-> EmptyDict], EmptyDict}

\* evaluations: every key is optional
CombineEvaluations ==
    {[candidate_name |-> "cv1",
      cv_analysis |-> [overall_assessment |-> [overall_score |-> R(90), risk_level |-> "low"],
                       skill_gaps |-> [gap_score |-> R(51)]],
      interview_scores |-> [overall_assessment |-> [overall_score |-> R(9)]]],
     [candidate_name |-> "cv1",
      interview_scores |-> [overall_assessment |-> [overall_score |-> R(3)]]],
     [candidate_name |-> "cv2",
      cv_analysis |-> [overall_assessment |-> [overall_score |-> R(40), risk_level |-> "high"]]],
     [interview_scores |-> [overall_assessment |-> [overall_score |-> R(3)]]],
     EmptyDict}

InitCombine ==
    /\ \/ /\ pc = "combine"
          /\ cv_analysis \in CombineCvAnalyses
          /\ interview_scores \in CombineInterviewScores
          /\ evaluations = Unset
       \/ /\ pc = "evaluations"
          /\ cv_analysis = Unset
          /\ interview_scores = Unset
          /\ evaluations \in ListsOf(CombineEvaluations, MaxEvaluations)
    /\ final_recommendation = Unset
    /\ comprehensive_report = Unset
    /\ batch_reports = Unset
    /\ NoGap /\ NoScoring /\ NoAggregate /\ NoAnalysis /\ NoExtract /\ NoWorkflow

NextCombine == GenerateComprehensiveReport \/ GenerateBatchReports

SpecCombine == InitCombine /\ [][NextCombine]_vars

-----------------------------------------------------------------------------
(* InterviewScorer.generate_interview_questions                            *)
\* the question texts of lines 387-414, and the first with the word technical
S_Q_ListTuple ==
    <<69, 120, 112, 108, 97, 105, 110, 32, 116, 104, 101, 32, 100, 105, 102, 102, 101, 114, 101, 110, 99, 101, 32, 98, 101, 116, 119, 101, 101, 110, 32, 97, 32, 108, 105, 115, 116, 32, 97, 110, 100, 32, 97, 32, 116, 117, 112, 108, 101, 32, 105, 110, 32, 80, 121, 116, 104, 111, 110, 46>>   \* "Explain the difference between a list and a tuple in Python."

S_Q_RestApi ==
    <<72, 111, 119, 32, 119, 111, 117, 108, 100, 32, 121, 111, 117, 32, 100, 101, 115, 105, 103, 110, 32, 97, 32, 82, 69, 83, 84, 32, 65, 80, 73, 32, 102, 111, 114, 32, 97, 32, 117, 115, 101, 114, 32, 109, 97, 110, 97, 103, 101, 109, 101, 110, 116, 32, 115, 121, 115, 116, 101, 109, 63>>   \* "How would you design a REST API for a user management system?"

S_Q_Database ==
    <<68, 101, 115, 99, 114, 105, 98, 101, 32, 121, 111, 117, 114, 32, 101, 120, 112, 101, 114, 105, 101, 110, 99, 101, 32, 119, 105, 116, 104, 32, 100, 97, 116, 97, 98, 97, 115, 101, 32, 111, 112, 116, 105, 109, 105, 122, 97, 116, 105, 111, 110, 46>>   \* "Describe your experience with database optimization."

S_Q_Project ==
    <<84, 101, 108, 108, 32, 109, 101, 32, 97, 98, 111, 117, 116, 32, 97, 32, 99, 104, 97, 108, 108, 101, 110, 103, 105, 110, 103, 32, 112, 114, 111, 106, 101, 99, 116, 32, 121, 111, 117, 32, 119, 111, 114, 107, 101, 100, 32, 111, 110, 32, 97, 110, 100, 32, 104, 111, 119, 32, 121, 111, 117, 32, 111, 118, 101, 114, 99, 97, 109, 101, 32, 111, 98, 115, 116, 97, 99, 108, 101, 115, 46>>   \* "Tell me about a challenging project you worked on and how you overcame obstacles."

S_Q_Team2 ==
    <<72, 111, 119, 32, 100, 111, 32, 121, 111, 117, 32, 104, 97, 110, 100, 108, 101, 32, 119, 111, 114, 107, 105, 110, 103, 32, 119, 105, 116, 104, 32, 100, 105, 102, 102, 105, 99, 117, 108, 116, 32, 116, 101, 97, 109, 32, 109, 101, 109, 98, 101, 114, 115, 63>>   \* "How do you handle working with difficult team members?"

S_Q_ListTupleTechnical ==
    <<69, 120, 112, 108, 97, 105, 110, 32, 116, 104, 101, 32, 116, 101, 99, 104, 110, 105, 99, 97, 108, 32, 100, 105, 102, 102, 101, 114, 101, 110, 99, 101, 32, 98, 101, 116, 119, 101, 101, 110, 32, 97, 32, 108, 105, 115, 116, 32, 97, 110, 100, 32, 97, 32, 116, 117, 112, 108, 101, 32, 105, 110, 32, 80, 121, 116, 104, 111, 110, 46>>   \* "Explain the technical difference between a list and a tuple in Python."

\* _generate_fallback_questions with a first question that has "technical"
FallbackQuestions_Technical ==
    [technical_questions |->
         <<[question |-> S_Q_ListTupleTechnical,
            purpose |-> "Assess basic programming knowledge",
            expected_keywords |-> <<"mutable", "immutable", "performance">>,
            difficulty |-> "junior"],
           [question |-> S_Q_RestApi,
            purpose |-> "Assess system design skills",
            expected_keywords |-> <<"endpoints", "HTTP methods", "authentication">>,
            difficulty |-> "mid-level"],
           [question |-> S_Q_Database,
            purpose |-> "Assess database knowledge",
            expected_keywords |-> <<"indexing", "query optimization", "performance">>,
            difficulty |-> "senior"]>>,
     behavioral_questions |->
         <<[question |-> S_Q_Project,
            purpose |-> "Assess problem-solving and resilience",
            expected_keywords |-> <<"problem-solving", "collaboration", "learning">>,
            scenario |-> "Project challenge"],
           [question |-> S_Q_Team2,
            purpose |-> "Assess teamwork and communication",
            expected_keywords |-> <<"communication", "patience", "conflict resolution">>,
            scenario |-> "Team dynamics"]>>,
     situational_questions |-> <<>>,
     question_rationale |-> "Fallback questions generated due to LLM processing error"]

\* _generate_fallback_questions, lines 384-430: the same questions for every
\* job description and CV analysis (its metadata is replaced by the caller)
FallbackQuestions ==
    [technical_questions |->
         <<[question |-> S_Q_ListTuple,
            purpose |-> "Assess basic programming knowledge",
            expected_keywords |-> <<"mutable", "immutable", "performance">>,
            difficulty |-> "junior"],
           [question |-> S_Q_RestApi,
            purpose |-> "Assess system design skills",
            expected_keywords |-> <<"endpoints", "HTTP methods", "authentication">>,
            difficulty |-> "mid-level"],
           [question |-> S_Q_Database,
            purpose |-> "Assess database knowledge",
            expected_keywords |-> <<"indexing", "query optimization", "performance">>,
            difficulty |-> "senior"]>>,
     behavioral_questions |->
         <<[question |-> S_Q_Project,
            purpose |-> "Assess problem-solving and resilience",
            expected_keywords |-> <<"problem-solving", "collaboration", "learning">>,
            scenario |-> "Project challenge"],
           [question |-> S_Q_Team2,
            purpose |-> "Assess teamwork and communication",
            expected_keywords |-> <<"communication", "patience", "conflict resolution">>,
            scenario |-> "Team dynamics"]>>,
     situational_questions |-> <<>>,
     question_rationale |-> "Fallback questions generated due to LLM processing error"]

\* generate_interview_questions, lines 53-62 (generation_timestamp, the wall
\* clock, is left out of the metadata)
GenerateInterviewQuestions(description, cv) ==
    FallbackQuestions
        @@ [metadata |-> [job_description_length |-> Len(description),
                          cv_analysis_score |-> AssessedScore(cv, R(0))]]

-----------------------------------------------------------------------------
(* main of scripts/complete_evaluation_runner.py: the loop over the        *)
(* candidates, lines 87-216. The log lines and the report files written by *)
(* save_report (which handles its own errors) are left out.                *)

\* line 151: the response used when the candidate's file has none
S_SampleResponse ==
    <<83, 97, 109, 112, 108, 101, 32, 114, 101, 115, 112, 111, 110, 115, 101, 32, 102, 111, 114, 32, 100, 101, 109, 111, 110, 115, 116, 114, 97, 116, 105, 111, 110, 46>>   \* "Sample response for demonstration."

\* lines 143-146: the two first technical questions and the first
\* behavioural one
SampleQuestions(qs) ==
    (IF "technical_questions" \in DOMAIN qs THEN Take(qs.technical_questions, 2) ELSE <<>>)
    \o (IF "behavioral_questions" \in DOMAIN qs
        THEN Take(qs.behavioral_questions, 1) ELSE <<>>)

\* line 150, for i = k - 1: tech_1 and tech_2, then behav_1, behav_2, ...
ResponseKey(k) ==
    IF k = 1 THEN "tech_1" ELSE IF k = 2 THEN "tech_2"
    ELSE IF k = 3 THEN "behav_1" ELSE "behav_2"

\* lines 148-156
QuestionsResponses(qs, responses) ==
    LET sample == SampleQuestions(qs)
    IN  [k \in 1..Len(sample) |->
            [question |-> Get(sample[k], "question", <<>>),
             response |-> Get(responses, ResponseKey(k), S_SampleResponse)]]

\* a JSON value that is an object, not a list
IsObject(x) == ~("kind" \in DOMAIN x /\ IsList(x))

\* lines 124-133: the first response file whose stem holds the candidate's
\* name, else the first file
MatchingResponseFile(response_list, cv_name) ==
    LET matches == {k \in 1..Len(response_list) :
                       Contains(Lower(PathStem(response_list[k].path)), Lower(cv_name))}
    IN  IF matches = {} THEN response_list[1]
        ELSE response_list[CHOOSE k \in matches : \A n \in matches : k <= n]

\* a response that is no string but a JSON number
JsonNumber == [number |-> 5]

IsNumber(x) == x = JsonNumber

\* score_multiple_responses on the pairs of the workflow: len() of a number
\* raises TypeError in _fallback_scoring and the handler of lines 161-163
\* returns the error record
ScorePairs(qrs) ==
    IF \E k \in 1..Len(qrs) : IsNumber(qrs[k].response)
    THEN ErrorResult("TypeError")
    ELSE ScoreMultipleResponsesResult(qrs)

\* "error" in result, lines 99, 113, 160 and 185, never found
Failed_Never(result) == FALSE

\* "error" in result, lines 99, 113, 160 and 185
Failed(result) == "error" \in DOMAIN result

\* a stage that was run for a candidate, and whether its result has no error
\* field
Stage(i, name, result) ==
    [candidate |-> i, stage |-> name, ok |-> "error" \notin DOMAIN result]

\* continue, or the end of the loop body: the next candidate
NextCandidate ==
    /\ candidate' = candidate + 1
    /\ pc' = IF candidate + 1 > Len(cv_files) THEN "finished" ELSE "step1"

\* lines 94-101
Step1CvAnalysis ==
    /\ pc = "step1"
    /\ \E result \in AnalyzeCvAgainstJobResults(files, PyStr(cv_files[candidate]),
                                              PyStr(job_description_path)) :
          /\ cv_analysis' = result
          /\ stages_run' = Append(stages_run, Stage(candidate, "cv_analysis", result))
          /\ IF Failed(result) THEN NextCandidate
             ELSE pc' = "step2" /\ candidate' = candidate
    /\ UNCHANGED <<response_files, questions, all_evaluations>>
    /\ UNCHANGED <<interview_scores, final_recommendation>>
    /\ UNCHANGED <<files, cv_file_path, job_description_path, cv_files, analysis_result,
                   batch_results>>
    /\ UNCHANGED <<gapVars, scoringVars, aggregateVars, extractVars, comprehensiveVars>>

\* lines 108-115
Step2Questions ==
    /\ pc = "step2"
    /\ LET result == GenerateInterviewQuestions(job_description, cv_analysis)
       IN  /\ questions' = result
           /\ stages_run' = Append(stages_run, Stage(candidate, "questions", result))
           /\ IF Failed(result) THEN NextCandidate
              ELSE pc' = "step3" /\ candidate' = candidate
    /\ UNCHANGED <<response_files, all_evaluations>>
    /\ UNCHANGED <<reportVars, gapVars, scoringVars, aggregateVars, analysisVars,
                   extractVars, comprehensiveVars>>

\* lines 120-162. load_json gives the content of the file, {} when it cannot
\* be read; .get on a content that is no object raises AttributeError, which
\* the handler of lines 214-216 turns into a continue.
Step3Scoring ==
    /\ pc = "step3"
    /\ LET cv_name == PathStem(cv_files[candidate])
           candidate_responses == MatchingResponseFile(response_files, cv_name).content
       IN  IF ~IsObject(candidate_responses)
              \/ ~IsObject(Get(candidate_responses, "responses", EmptyDict))
           THEN /\ stages_run' = Append(stages_run,
                                        Stage(candidate, "scoring", ErrorResult("AttributeError")))
                /\ NextCandidate
                /\ UNCHANGED <<questions_responses, interview_scores>>
           ELSE LET pairs == QuestionsResponses(
                                 questions, Get(candidate_responses, "responses", EmptyDict))
                    result == ScorePairs(pairs)
                IN  /\ questions_responses' = pairs
                    /\ interview_scores' = result
                    /\ stages_run' = Append(stages_run, Stage(candidate, "scoring", result))
                    /\ IF Failed(result) THEN NextCandidate
                       ELSE pc' = "step4" /\ candidate' = candidate
    /\ UNCHANGED <<response_files, questions, all_evaluations>>
    /\ UNCHANGED <<cv_analysis, final_recommendation>>
    /\ UNCHANGED <<results, individual_scores, consistency_score>>
    /\ UNCHANGED <<gapVars, scoringVars, analysisVars, extractVars, comprehensiveVars>>

\* lines 169-216
Step4Report ==
    /\ pc = "step4"
    /\ LET cv_file == cv_files[candidate]
           cv_name == PathStem(cv_file)
           candidate_info == [name |-> cv_name,
                              cv_file |-> PathName(cv_file),
                              job_description |-> PathName(job_description_path)]
           result == GenerateComprehensiveReportResult(cv_analysis, interview_scores)
                         @@ [candidate_info |-> candidate_info]
       IN  /\ comprehensive_report' = result
           /\ IF Failed(result)
              THEN /\ stages_run' = Append(stages_run, Stage(candidate, "report", result))
                   /\ UNCHANGED all_evaluations
              ELSE /\ stages_run' = stages_run \o <<Stage(candidate, "report", result),
                                                    Stage(candidate, "recorded", result)>>
                   /\ all_evaluations' =
                          SetItem(all_evaluations, cv_name,
                                  [cv_analysis |-> cv_analysis,
                                   interview_scores |-> interview_scores,
                                   comprehensive_report |-> result,
                                   candidate_info |-> candidate_info])
    /\ NextCandidate
    /\ UNCHANGED <<response_files, questions, evaluations, batch_reports>>
    /\ UNCHANGED <<reportVars, gapVars, scoringVars, aggregateVars, analysisVars,
                   extractVars>>

\* the files create_sample_data writes (FileUtils, lines 254-470), and files
\* that may lie beside them: two more CVs, a job description that sorts
\* first, a response file named after the senior CV
S_WfBroken ==
    <<100, 97, 116, 97, 47, 99, 118, 95, 115, 97, 109, 112, 108, 101, 115, 47, 98, 114, 111, 107, 101, 110, 46, 116, 120, 116>>   \* "data/cv_samples/broken.txt"

S_WfJunior ==
    <<100, 97, 116, 97, 47, 99, 118, 95, 115, 97, 109, 112, 108, 101, 115, 47, 106, 117, 110, 105, 111, 114, 95, 100, 101, 118, 101, 108, 111, 112, 101, 114, 46, 116, 120, 116>>   \* "data/cv_samples/junior_developer.txt"

S_WfSeniorPdf ==
    <<100, 97, 116, 97, 47, 99, 118, 95, 115, 97, 109, 112, 108, 101, 115, 47, 115, 101, 110, 105, 111, 114, 95, 100, 101, 118, 101, 108, 111, 112, 101, 114, 46, 112, 100, 102>>   \* "data/cv_samples/senior_developer.pdf"

S_WfSenior ==
    <<100, 97, 116, 97, 47, 99, 118, 95, 115, 97, 109, 112, 108, 101, 115, 47, 115, 101, 110, 105, 111, 114, 95, 100, 101, 118, 101, 108, 111, 112, 101, 114, 46, 116, 120, 116>>   \* "data/cv_samples/senior_developer.txt"

S_WfBackendJob ==
    <<100, 97, 116, 97, 47, 106, 111, 98, 95, 100, 101, 115, 99, 114, 105, 112, 116, 105, 111, 110, 115, 47, 98, 97, 99, 107, 101, 110, 100, 46, 116, 120, 116>>   \* "data/job_descriptions/backend.txt"

S_WfJuniorJob ==
    <<100, 97, 116, 97, 47, 106, 111, 98, 95, 100, 101, 115, 99, 114, 105, 112, 116, 105, 111, 110, 115, 47, 106, 117, 110, 105, 111, 114, 95, 100, 101, 118, 101, 108, 111, 112, 101, 114, 46, 116, 120, 116>>   \* "data/job_descriptions/junior_developer.txt"

S_WfJuniorResponses ==
    <<100, 97, 116, 97, 47, 115, 97, 109, 112, 108, 101, 95, 114, 101, 115, 112, 111, 110, 115, 101, 115, 47, 106, 117, 110, 105, 111, 114, 95, 99, 97, 110, 100, 105, 100, 97, 116, 101, 95, 114, 101, 115, 112, 111, 110, 115, 101, 115, 46, 106, 115, 111, 110>>   \* "data/sample_responses/junior_candidate_responses.json"

S_WfSeniorResponses ==
    <<100, 97, 116, 97, 47, 115, 97, 109, 112, 108, 101, 95, 114, 101, 115, 112, 111, 110, 115, 101, 115, 47, 115, 101, 110, 105, 111, 114, 95, 99, 97, 110, 100, 105, 100, 97, 116, 101, 95, 114, 101, 115, 112, 111, 110, 115, 101, 115, 46, 106, 115, 111, 110>>   \* "data/sample_responses/senior_candidate_responses.json"

S_WfNamedResponses ==
    <<100, 97, 116, 97, 47, 115, 97, 109, 112, 108, 101, 95, 114, 101, 115, 112, 111, 110, 115, 101, 115, 47, 115, 101, 110, 105, 111, 114, 95, 100, 101, 118, 101, 108, 111, 112, 101, 114, 95, 114, 101, 115, 112, 111, 110, 115, 101, 115, 46, 106, 115, 111, 110>>   \* "data/sample_responses/senior_developer_responses.json"

\* _create_sample_responses, lines 446-464: the answers by their lengths and
\* the keywords they hold
JuniorSampleResponses ==
    [candidate_id |-> "junior_dev_001",
     responses |-> [tech_1 |-> BuildResponse({}, 98),
                    tech_2 |-> BuildResponse({}, 102),
                    behav_1 |-> BuildResponse({}, 177)]]

SeniorSampleResponses ==
    [candidate_id |-> "senior_dev_001",
     responses |-> [tech_1 |-> BuildResponse({1}, 293),
                    tech_2 |-> BuildResponse({}, 217),
                    behav_1 |-> BuildResponse({}, 225)]]

\* what load_json may give for a file that is not a sample: three long
\* answers with keywords, a medium and an empty answer, no answers, a number
\* for an answer, a list for the answers, {} (also for a file that cannot be
\* read), and a JSON list
ResponseContents ==
    {[responses |-> [tech_1 |-> KeywordResponse, tech_2 |-> KeywordResponse,
                     behav_1 |-> LongResponse]],
     [responses |-> [tech_1 |-> MediumResponse, tech_2 |-> <<>>]],
     [responses |-> EmptyDict],
     [responses |-> [behav_1 |-> JsonNumber]],
     [responses |-> PyList(<<>>)],
     EmptyDict,
     PyList(<<>>)}

\* list_files gives the response files sorted: the two samples (the first
\* keeps an older content when save_json could not write it, lines 150-159),
\* then the file named after the senior CV when there is one
WorkflowResponseFiles ==
    {<<[path |-> S_WfJuniorResponses, content |-> c],
       [path |-> S_WfSeniorResponses, content |-> SeniorSampleResponses]>> \o named :
        c \in {JuniorSampleResponses} \cup ResponseContents,
        named \in {<<>>} \cup {<<[path |-> S_WfNamedResponses, content |-> d]>> :
                                  d \in ResponseContents}}

\* the CV directory: the two samples, and beside them a file that cannot be
\* read or is blank and a PDF with or without text
WorkflowCvDirectories ==
    {[p \in {S_WfJunior, S_WfSenior} \cup extra |->
         IF p = S_WfJunior THEN TextFile(S_JuniorText)
         ELSE IF p = S_WfSenior THEN TextFile(S_SeniorText)
         ELSE IF p = S_WfBroken THEN broken ELSE pdf] :
        extra \in SUBSET {S_WfBroken, S_WfSeniorPdf},
        broken \in {UnreadableFile, TextFile(S_Blank)},
        pdf \in {TextFile(S_SeniorCvText), TextFile(S_Blank)}}

\* the job descriptions: the sample for a junior, and before it in the order
\* of the names a file for a senior, a blank one or one that cannot be read
WorkflowJobDirectories ==
    {[p \in {S_WfJuniorJob} |-> TextFile(S_JuniorText)]}
    \cup {[p \in {S_WfBackendJob, S_WfJuniorJob} |->
              IF p = S_WfJuniorJob THEN TextFile(S_JuniorText) ELSE backend] :
             backend \in {TextFile(S_SeniorText), TextFile(S_Blank), UnreadableFile}}

\* get_cv_samples and get_job_descriptions give the files of a directory
\* sorted by name (list_files, lines 197-223)
WorkflowSorted(directory) ==
    SelectSeq(<<S_WfBroken, S_WfJunior, S_WfSeniorPdf, S_WfSenior,
                S_WfBackendJob, S_WfJuniorJob>>,
              LAMBDA p : p \in DOMAIN directory)

\* the state at line 87: the sample data written, the files listed, the
\* first job description read (lines 79-80), no evaluation yet
InitWorkflow ==
    /\ pc = "step1"
    /\ \E cvs \in WorkflowCvDirectories, jobs \in WorkflowJobDirectories :
          /\ files = cvs @@ jobs
          /\ cv_files = WorkflowSorted(cvs)
          /\ job_description_path = WorkflowSorted(jobs)[1]
          /\ job_description = ReadFile(jobs, WorkflowSorted(jobs)[1])
    /\ response_files \in WorkflowResponseFiles
    /\ candidate = 1
    /\ questions = Unset
    /\ all_evaluations = EmptyDict
    /\ stages_run = <<>>
    /\ cv_analysis = Unset
    /\ interview_scores = Unset
    /\ final_recommendation = Unset
    /\ questions_responses = Unset
    /\ results = Unset
    /\ individual_scores = Unset
    /\ consistency_score = Unset
    /\ cv_file_path = Unset
    /\ analysis_result = Unset
    /\ batch_results = Unset
    /\ cv_text = Unset
    /\ extracted_skills = Unset
    /\ extracted_requirements = Unset
    /\ comprehensive_report = Unset
    /\ evaluations = Unset
    /\ batch_reports = Unset
    /\ NoGap /\ NoScoring

NextWorkflow == Step1CvAnalysis \/ Step2Questions \/ Step3Scoring \/ Step4Report

SpecWorkflow == InitWorkflow /\ [][NextWorkflow]_vars

-----------------------------------------------------------------------------
(* Claims about _calculate_skill_gaps, checked under SpecGap.              *)

Range(s) == {s[i] : i \in 1..Len(s)}

\* the names a technical_skills value lists, whatever its shape
ListedNames(t) ==
    IF t.kind = "list" THEN Range(t.val)
    ELSE {x \in CvSkillPool \cup JobSkillPool :
            \E c \in DOMAIN t.val : t.val[c].kind = "list" /\ x \in Range(t.val[c].val)}

\* the names the candidate record lists
CandidateNames == 
    IF "technical_skills" \in DOMAIN cv_skills THEN ListedNames(cv_skills.technical_skills)
    ELSE {}

\* the names the job record requires
RequiredNames ==
    IF "required_skills" \in DOMAIN job_requirements
       /\ "technical_skills" \in DOMAIN job_requirements.required_skills
    THEN ListedNames(job_requirements.required_skills.technical_skills)
    ELSE {}

\* the case-folded forms of the pool names, written out
FoldedNames == {S_python, S_java, S_docker}

\* name x case-folds to the lower-case name y
FoldsTo(x, y) ==
    \/ x \in {S_Python, S_python} /\ y = S_python
    \/ x \in {S_Java, S_java} /\ y = S_java
    \/ x \in {S_Docker, S_docker} /\ y = S_docker

CandidateHas(y) == \E x \in CandidateNames : FoldsTo(x, y)
JobRequires(y) == \E x \in RequiredNames : FoldsTo(x, y)

\* C1: the returned gap_score lies in [0, 100] for every pair of records.
C1_GapScoreInRange ==
    pc = "gaps" =>
        /\ skill_gaps.gap_score.n >= 0
        /\ skill_gaps.gap_score.n <= 100 * skill_gaps.gap_score.d

\* every required skill is missing, the job is senior, the candidate junior:
\* 100 + 30 is clamped to 100
C1_Witness ==
    /\ pc = "gaps"
    /\ skill_gaps.experience_gap = "junior_applying_for_senior"
    /\ Len(skill_gaps.missing_technical_skills) = 3
    /\ skill_gaps.gap_score = R(100)

BothMappings ==
    /\ "technical_skills" \in DOMAIN cv_skills
    /\ cv_skills.technical_skills.kind = "dict"
    /\ \A c \in DOMAIN cv_skills.technical_skills.val :
          cv_skills.technical_skills.val[c].kind = "list"
    /\ "required_skills" \in DOMAIN job_requirements
    /\ "technical_skills" \in DOMAIN job_requirements.required_skills
    /\ job_requirements.required_skills.technical_skills.kind = "dict"
    /\ \A c \in DOMAIN job_requirements.required_skills.technical_skills.val :
          job_requirements.required_skills.technical_skills.val[c].kind = "list"

\* C2: with both technical-skill values given as category mappings of lists,
\* missing_technical_skills is as a set the case-folded required skills minus
\* the case-folded candidate skills.
C2_MissingIsSetDifference ==
    (pc = "gaps" /\ BothMappings) =>
        /\ Range(skill_gaps.missing_technical_skills) \subseteq FoldedNames
        /\ \A y \in FoldedNames :
              y \in Range(skill_gaps.missing_technical_skills)
                  <=> (JobRequires(y) /\ ~CandidateHas(y))

\* the candidate lists "Python", the job requires "python" and "Docker":
\* only "docker" is missing
C2_Witness ==
    /\ pc = "gaps"
    /\ BothMappings
    /\ S_Python \in CandidateNames
    /\ RequiredNames = {S_python, S_Docker}
    /\ skill_gaps.missing_technical_skills = <<S_docker>>

\* C3: with the job's technical_skills given as a flat list and the candidate's
\* as a category mapping, every listed required skill the candidate lacks
\* (compared case-insensitively) is in missing_technical_skills.
C3_FlatListMissing ==
    (/\ pc = "gaps"
     /\ "required_skills" \in DOMAIN job_requirements
     /\ "technical_skills" \in DOMAIN job_requirements.required_skills
     /\ job_requirements.required_skills.technical_skills.kind = "list"
     /\ "technical_skills" \in DOMAIN cv_skills
     /\ cv_skills.technical_skills.kind = "dict")
    => \A y \in FoldedNames :
          (JobRequires(y) /\ ~CandidateHas(y))
              => \E m \in Range(skill_gaps.missing_technical_skills) : FoldsTo(m, y)

\* the experience adjustment A of the claim, from the returned experience_gap
ClaimAdjustment ==
    IF skill_gaps.experience_gap = "junior_applying_for_senior" THEN 30
    ELSE IF skill_gaps.experience_gap = "senior_applying_for_junior" THEN -20
    ELSE 0

ClaimRequiredCount == Cardinality({y \in FoldedNames : JobRequires(y)})

ClaimMissingCount == Len(skill_gaps.missing_technical_skills)

\* g = min(100, max(0, 100*m/r + a)) for a fraction g and integers m, r > 0, a
IsClampOf(g, m, r, a) ==
    LET num == 100 * m + a * r      \* (100*m/r + a) = num / r
    IN  IF num <= 0 THEN g.n = 0
        ELSE IF num >= 100 * r THEN g.n = 100 * g.d
        ELSE g.n * r = num * g.d

\* C4 as claimed: gap_score = min(100, max(0, B + A)) whether or not a skill
\* is required, with B = 0 when none is.
C4_Original ==
    pc = "gaps" =>
        IF ClaimRequiredCount > 0
        THEN IsClampOf(skill_gaps.gap_score, ClaimMissingCount, ClaimRequiredCount,
                       ClaimAdjustment)
        ELSE IsClampOf(skill_gaps.gap_score, 0, 1, ClaimAdjustment)

\* C4 as amended: gap_score = min(100, max(0, 100*|missing|/|required| + A))
\* when the job requires a skill, and 0, with no adjustment, when it does not.
C4_Amended ==
    pc = "gaps" =>
        IF ClaimRequiredCount > 0
        THEN IsClampOf(skill_gaps.gap_score, ClaimMissingCount, ClaimRequiredCount,
                       ClaimAdjustment)
        ELSE skill_gaps.gap_score.n = 0

\* two of three required skills missing, junior for senior: 200/3 + 30 = 290/3
C4_Witness ==
    /\ pc = "gaps"
    /\ ClaimRequiredCount = 3
    /\ ClaimMissingCount = 2
    /\ skill_gaps.experience_gap = "junior_applying_for_senior"
    /\ skill_gaps.gap_score = [n |-> 290, d |-> 3]

\* C5: with no required technical skill, gap_score is exactly 0 for every
\* candidate skill set and every pair of experience levels.
C5_EmptyRequiredGivesZero ==
    (pc = "gaps" /\ RequiredNames = {}) => skill_gaps.gap_score = R(0)

\* nothing required, junior for senior, the candidate lists skills
C5_Witness ==
    /\ pc = "gaps"
    /\ RequiredNames = {}
    /\ CandidateNames # {}
    /\ skill_gaps.experience_gap = "junior_applying_for_senior"
    /\ skill_gaps.gap_score = R(0)

-----------------------------------------------------------------------------
(* Claims about _determine_hiring_recommendation and _determine_risk_level, *)
(* checked under SpecDetermine.                                             *)

\* the gap record says overqualification_risk is high
ClaimOverqualified ==
    /\ "overqualification_risk" \in DOMAIN skill_gaps
    /\ skill_gaps.overqualification_risk = "high"

\* the gap_score of the gap record as 2 * gap_score, 0 when it has none
ClaimGapScoreBelow20 ==
    "gap_score" \in DOMAIN skill_gaps => skill_gaps.gap_score.n < 20 * skill_gaps.gap_score.d

\* overall_score >= k, k an integer
ScoreAtLeast(k) == overall_score.n >= k * overall_score.d

\* the candidate is senior, the job junior, and the records have the shape the
\* extractors produce (technical skills by category)
SeniorAgainstJunior ==
    /\ pc = "gaps"
    /\ "experience_level" \in DOMAIN cv_skills
    /\ cv_skills.experience_level = "senior"
    /\ job_requirements.experience_requirements.experience_level = "junior"
    /\ cv_skills.technical_skills.kind = "dict"
    /\ job_requirements.required_skills.technical_skills.kind = "dict"

C7_RiskLevelTable ==
    risk_level # Unset =>
        IF "None" \notin DOMAIN skill_gaps /\ ClaimOverqualified
        THEN risk_level = "high"
        ELSE /\ risk_level \in {"low", "medium", "high"}
             /\ risk_level = "low" <=> ScoreAtLeast(80)
             /\ risk_level = "medium" <=> (ScoreAtLeast(60) /\ ~ScoreAtLeast(80))
             /\ risk_level = "high" <=> ~ScoreAtLeast(60)

\* overqualification_risk high and a score of 90: high, not low
C7_Witness ==
    /\ risk_level = "high"
    /\ "None" \notin DOMAIN skill_gaps
    /\ ClaimOverqualified
    /\ overall_score = R(90)

-----------------------------------------------------------------------------
(* Claims about _generate_overall_assessment, checked under SpecAssess.    *)

\* C8: with gap_score and every supplied model and experience score in
\* [0, 100], the overall_score of the assessment lies in [0, 100], on the
\* averaging path and on the fallback path, for every pair of labels.
C8_OverallScoreInRange ==
    pc = "assessed" =>
        /\ assessment.overall_score.n >= 0
        /\ assessment.overall_score.n <= 100 * assessment.overall_score.d

-----------------------------------------------------------------------------
(* Claims about _generate_final_recommendation, checked under SpecFinal.   *)

\* the CV overall_score c and the interview overall_score i of the records
ClaimCvScore ==
    IF "overall_assessment" \in DOMAIN cv_analysis
       /\ "overall_score" \in DOMAIN cv_analysis.overall_assessment
    THEN cv_analysis.overall_assessment.overall_score ELSE [n |-> 0, d |-> 1]

ClaimInterviewScore ==
    IF "overall_assessment" \in DOMAIN interview_scores
       /\ "overall_score" \in DOMAIN interview_scores.overall_assessment
    THEN interview_scores.overall_assessment.overall_score ELSE [n |-> 0, d |-> 1]

\* 0.4*c + 0.6*10*i >= k, in integers: 4*c + 60*i >= 10*k
WeightedAtLeast(k) ==
    LET c == ClaimCvScore
        i == ClaimInterviewScore
    IN  4 * c.n * i.d + 60 * i.n * c.d >= 10 * k * c.d * i.d

\* C9: the final recommendation is decided by w = 0.4*c + 0.6*10*i alone:
\* strong_hire iff w >= 85, hire iff 70 <= w < 85, consider iff 50 <= w < 70,
\* reject iff w < 50, whatever the other fields of the two records.
C9_FinalRecommendationBands ==
    pc = "recommended" =>
        /\ final_recommendation = "strong_hire" <=> WeightedAtLeast(85)
        /\ final_recommendation = "hire" <=> (WeightedAtLeast(70) /\ ~WeightedAtLeast(85))
        /\ final_recommendation = "consider"
               <=> (WeightedAtLeast(50) /\ ~WeightedAtLeast(70))
        /\ final_recommendation = "reject" <=> ~WeightedAtLeast(50)

\* c = 90 and i = 8 give w = 84 and hire, though the CV's own recommendation
\* and the interview's are both strong_hire
C9_Witness ==
    /\ pc = "recommended"
    /\ ClaimCvScore = [n |-> 90, d |-> 1]
    /\ ClaimInterviewScore = [n |-> 8, d |-> 1]
    /\ cv_analysis.overall_assessment.hiring_recommendation = "strong_hire"
    /\ interview_scores.overall_assessment.recommendation = "strong_hire"
    /\ final_recommendation = "hire"

-----------------------------------------------------------------------------
(* Claims about _fallback_scoring, checked under SpecScoring.              *)

\* the question, lower-cased, contains "technical" or "programming"
ClaimTechnicalQuestion ==
    \E w \in {S_technical, S_programming} : Contains(Lower(question), w)

\* the keywords that occur in the lower-cased response
ClaimKeywordsFound ==
    {w \in {S_python, S_java, S_database, S_api, S_algorithm} :
        Contains(Lower(response), w)}

ClaimLengthBand ==
    CASE Len(response) < 50 -> 3
      [] Len(response) >= 50 /\ Len(response) < 150 -> 5
      [] Len(response) >= 150 /\ Len(response) < 300 -> 7
      [] Len(response) >= 300 -> 8

\* C10: the per-response score is the length band, plus, for a question
\* containing "technical" or "programming", one point per keyword found in the
\* lower-cased response, capped at 10; it is an integer in [1, 10].
C10_FallbackScore ==
    pc = "scored" =>
        LET uncapped == ClaimLengthBand
                        + (IF ClaimTechnicalQuestion
                           THEN Cardinality(ClaimKeywordsFound) ELSE 0)
        IN  /\ scoring_result.overall_score = (IF uncapped > 10 THEN 10 ELSE uncapped)
            /\ scoring_result.overall_score \in 1..10

\* a 400-character response with "Python" and "API" to a technical question:
\* 8 + 2 = 10
C10_Witness ==
    /\ pc = "scored"
    /\ Len(response) = 400
    /\ ClaimTechnicalQuestion
    /\ ClaimKeywordsFound = {S_python, S_api}
    /\ scoring_result.overall_score = 10
    /\ scoring_result.recommendation = "consider"

-----------------------------------------------------------------------------
(* Claims about score_multiple_responses, checked under SpecAggregate.     *)

\* the input pairs that hold a question and a response, by position
ClaimScoredPositions ==
    {i \in 1..Len(questions_responses) :
        /\ "question" \in DOMAIN questions_responses[i]
        /\ "response" \in DOMAIN questions_responses[i]
        /\ questions_responses[i].question # <<>>
        /\ questions_responses[i].response # <<>>}

\* the overall scores of the entries of individual_scores
ClaimEntryScores ==
    [k \in 1..Len(results.individual_scores) |-> results.individual_scores[k].overall_score]

\* their arithmetic mean (0 when there is none)
ClaimMean ==
    IF ClaimEntryScores = <<>> THEN R(0)
    ELSE Rat(Sum(ClaimEntryScores), Len(ClaimEntryScores))

\* C11: the aggregate's overall_score is the mean of the overall scores of the
\* entries of individual_scores, rounded to 2 decimals, and 0 when no pair
\* was scored; skipped pairs do not enter the mean.
C11_MeanOfScoredPairs ==
    pc = "aggregated" =>
        results.overall_assessment.overall_score = Round2(ClaimMean)

\* the position in the input list each entry names, in the order of the entries
ClaimEntryPositions ==
    [k \in 1..Len(results.individual_scores) |->
        results.individual_scores[k].question_index + 1]

\* C12: an empty question or response never makes the call fail: such pairs
\* are skipped, every other pair yields exactly one entry, the entries keep
\* the input order, and question_index is the position of the entry's pair in
\* the input list (counted from 0).
C12_EmptyPairsSkipped ==
    pc = "aggregated" =>
        /\ "error" \notin DOMAIN results
        /\ Len(ClaimEntryPositions) = Cardinality(ClaimScoredPositions)
        /\ Range(ClaimEntryPositions) = ClaimScoredPositions
        /\ \A k, l \in 1..Len(ClaimEntryPositions) :
               k < l => ClaimEntryPositions[k] < ClaimEntryPositions[l]
        /\ \A k \in 1..Len(ClaimEntryPositions) :
               LET pair == questions_responses[ClaimEntryPositions[k]]
                   entry == results.individual_scores[k]
               IN  /\ entry.metadata.question_length = Len(pair.question)
                   /\ entry.metadata.response_length = Len(pair.response)
                   /\ entry.overall_score = FallbackOverallScore(pair.question, pair.response)

\* a list of three pairs whose first one is skipped and whose other two are scored
C12_Witness ==
    /\ pc = "aggregated"
    /\ Len(questions_responses) = 3
    /\ ClaimScoredPositions = {2, 3}
    /\ Len(results.individual_scores) = 2
    /\ results.individual_scores[1].question_index = 1
    /\ results.individual_scores[2].question_index = 2

\* max(0, 100 - 10 * variance) of a list of scores, to 2 decimals; 100 for
\* fewer than two scores
ClaimConsistency(scores) ==
    IF Len(scores) < 2 THEN R(100)
    ELSE Round2(RMax(R(0), RSub(R(100), RMul(Variance(scores), R(10)))))

\* C13: for every list of pairs, the empty list included, the aggregate has a
\* consistency_score, it is max(0, 100 - 10 * variance) of the individual
\* overall scores (to 2 decimals), 100 with fewer than two scores, and in
\* [0, 100]; the scores [9, 9, 9] give 100 and [2, 9, 10] a value in [0, 100).
C13_ConsistencyScore ==
    /\ pc = "aggregated" =>
           /\ "consistency_score" \in DOMAIN results.overall_assessment
           /\ results.overall_assessment.consistency_score = ClaimConsistency(ClaimEntryScores)
           /\ RGe(results.overall_assessment.consistency_score, R(0))
           /\ RLe(results.overall_assessment.consistency_score, R(100))
    /\ pc = "consistency" =>
           /\ RGe(consistency_score, R(0))
           /\ RLe(consistency_score, R(100))
           /\ OverallScores(individual_scores) = <<9, 9, 9>> => consistency_score = R(100)
           /\ OverallScores(individual_scores) = <<2, 9, 10>> => RLt(consistency_score, R(100))

\* the band of a mean score: limits 8.5, 7.0 and 5.5
ClaimBand(mean) ==
    IF RGe(mean, Rat(85, 10)) THEN 4
    ELSE IF RGe(mean, R(7)) THEN 3
    ELSE IF RGe(mean, Rat(55, 10)) THEN 2
    ELSE 1

\* C14: in every aggregate the recommendation and the performance level are
\* the same banding of the mean score: strong_hire with excellent (mean >=
\* 8.5), hire with good (>= 7.0), consider with fair (>= 5.5), reject with
\* poor (< 5.5).
C14_SameBanding ==
    pc = "aggregated" =>
        LET overall == results.overall_assessment
            band == ClaimBand(ClaimMean)
        IN  /\ "recommendation" \in DOMAIN overall
            /\ overall.recommendation = "strong_hire" <=> overall.performance_level = "excellent"
            /\ overall.recommendation = "hire" <=> overall.performance_level = "good"
            /\ overall.recommendation = "consider" <=> overall.performance_level = "fair"
            /\ overall.recommendation = "reject" <=> overall.performance_level = "poor"
            /\ overall.performance_level = "excellent" <=> band = 4
            /\ overall.performance_level = "good" <=> band = 3
            /\ overall.performance_level = "fair" <=> band = 2
            /\ overall.performance_level = "poor" <=> band = 1

-----------------------------------------------------------------------------
(* Claims about analyze_cv_against_job and batch_analyze_cvs, checked      *)
(* under SpecAnalysis.                                                     *)

\* the text read_file gives for a path argument that is a string
ClaimTextRead(path) == ReadFile(files, path.val)

\* C15: analyze_cv_against_job always returns a record: exactly
\* {"error": "Failed to read input files"} when the text read from either
\* path is empty, a record holding only an error field when a step raises,
\* and otherwise a record with overall_assessment and without error.
C15_AnalyzeNeverRaises ==
    pc = "analyzed" =>
        /\ "error" \in DOMAIN analysis_result => DOMAIN analysis_result = {"error"}
        /\ "error" \in DOMAIN analysis_result \/ "overall_assessment" \in DOMAIN analysis_result
        /\ IsStr(cv_file_path) /\ IsStr(job_description_path) =>
               IF ClaimTextRead(cv_file_path) = <<>> \/ ClaimTextRead(job_description_path) = <<>>
               THEN analysis_result = [error |-> "Failed to read input files"]
               ELSE /\ "overall_assessment" \in DOMAIN analysis_result
                    /\ "error" \notin DOMAIN analysis_result
        /\ ~IsStr(cv_file_path) => "error" \in DOMAIN analysis_result

\* a CV that is read, against a job description file that is absent
C15_Witness ==
    /\ pc = "analyzed"
    /\ IsStr(cv_file_path)
    /\ ClaimTextRead(cv_file_path) # <<>>
    /\ ~files[S_PathJd].exists
    /\ analysis_result = [error |-> "Failed to read input files"]

\* the list of paths without its i-th one
ClaimWithout(i) ==
    [k \in 1..(Len(cv_files) - 1) |-> IF k < i THEN cv_files[k] ELSE cv_files[k + 1]]

\* the analysis of the i-th path fails: one of the two texts read is empty
ClaimFails(i) ==
    ClaimTextRead(cv_files[i]) = <<>> \/ ClaimTextRead(job_description_path) = <<>>

\* the key under which the batch result holds the i-th path's entry
ClaimKey(i) == PathStem(cv_files[i].val)

\* C16: the batch result has one entry for each path of the input list (as
\* many entries as paths); a CV whose analysis fails has an error entry, and
\* the entries of the other CVs are what they are without it in the list.
C16_BatchOneEntryPerPath ==
    pc = "batched" =>
        /\ Cardinality(DOMAIN batch_results) = Len(cv_files)
        /\ \A i \in 1..Len(cv_files) :
               ClaimFails(i) =>
                   /\ ClaimKey(i) \in DOMAIN batch_results
                   /\ "error" \in DOMAIN batch_results[ClaimKey(i)]
                   /\ \E alone \in BatchAnalyzeCvsResults(files, ClaimWithout(i),
                                                         job_description_path) :
                          \A j \in 1..Len(cv_files) :
                              j # i => /\ ClaimKey(j) \in DOMAIN alone
                                       /\ batch_results[ClaimKey(j)] = alone[ClaimKey(j)]

-----------------------------------------------------------------------------
(* Claims about _generate_overall_assessment and _generate_recommendations, *)
(* checked under SpecAssess.                                                *)

\* the missing skills the gap record lists
ClaimMissingSkills == Get(skill_gaps, "missing_technical_skills", <<>>)

-----------------------------------------------------------------------------
(* Claims about the two text extractors, checked under SpecExtract.        *)

\* the level the rule order junior, senior, mid-level gives a lower-cased text
ClaimLevel(text, junior, senior, mid) ==
    IF AnyIn(junior, text) THEN "junior"
    ELSE IF AnyIn(senior, text) THEN "senior"
    ELSE IF AnyIn(mid, text) THEN "mid-level"
    ELSE "unknown"

\* C18: both extractors test the keyword rules in the order junior, senior,
\* mid-level and the first rule that matches wins: a text with a junior and a
\* senior keyword is junior for either extractor.
C18_SameRuleOrder ==
    pc = "extracted" =>
        /\ extracted_skills.experience_level =
               ClaimLevel(Lower(cv_text), CvJuniorWords, CvSeniorWords, CvMidWords)
        /\ extracted_requirements.experience_requirements.experience_level =
               ClaimLevel(Lower(job_description), JobJuniorWords, JobSeniorWords, JobMidWords)

-----------------------------------------------------------------------------
(* Further claims about _generate_overall_assessment, under SpecAssess.    *)

\* the component scores the analysis and gap records supply: the external
\* score when present and > 0, 100 - gap_score, the external experience score
\* when the record holds one
ClaimComponents ==
    (IF "overall_score" \in DOMAIN llm_analysis /\ RGt(llm_analysis.overall_score, R(0))
     THEN <<llm_analysis.overall_score>> ELSE <<>>)
    \o <<RSub(R(100), Get(skill_gaps, "gap_score", R(0)))>>
    \o (IF /\ "experience_assessment" \in DOMAIN llm_analysis
           /\ "experience_score" \in DOMAIN llm_analysis.experience_assessment
        THEN <<llm_analysis.experience_assessment.experience_score>> ELSE <<>>)

\* C19: with two or more components available the overall_score is their
\* arithmetic mean; a key the analysis record does not hold adds no number.
C19_MeanOfAvailableComponents ==
    (pc = "assessed" /\ Len(ClaimComponents) >= 2) =>
        assessment.overall_score = RDiv(RSum(ClaimComponents), Len(ClaimComponents))

\* the two profiles are records as the extractors return them
ClaimExtractedProfiles ==
    /\ cv_skills \in {FallbackSkillExtractionResult(t) : t \in {S_JuniorText, S_SeniorText}}
    /\ job_requirements \in
           {FallbackRequirementExtractionResult(t) : t \in {S_JuniorText, S_SeniorText}}

\* the adjustment the experience levels of the two profiles call for
ClaimLevelAdjustment ==
    LET cv_level == cv_skills.experience_level
        job_level == job_requirements.experience_requirements.experience_level
    IN  IF cv_level = "junior" /\ job_level = "senior" THEN R(-30)
        ELSE IF cv_level = "senior" /\ job_level = "junior" THEN R(10)
        ELSE R(0)

\* C20: on the fallback path (fewer than two component scores) the
\* overall_score is 100 - gap_score, lowered by 30 for a junior candidate
\* against a senior job, raised by 10 for a senior candidate against a junior
\* job and unchanged otherwise, for profiles as the extractors produce them.
C20_FallbackLevelAdjustment ==
    (/\ pc = "assessed"
     /\ Len(ComponentScores(skill_gaps, llm_analysis)) < 2
     /\ ClaimExtractedProfiles) =>
        assessment.overall_score =
            RAdd(RSub(R(100), Get(skill_gaps, "gap_score", R(0))), ClaimLevelAdjustment)

-----------------------------------------------------------------------------
(* Claims about the experience gap and the risk fields of                  *)
(* _calculate_skill_gaps, checked under SpecGap.                           *)

\* the candidate's and the job's level as the claims name them
ClaimCvLevel == Get(cv_skills, "experience_level", "unknown")

ClaimJobLevel ==
    Get(Get(job_requirements, "experience_requirements", EmptyDict),
        "experience_level", "unknown")

ClaimExperienceGap ==
    IF ClaimCvLevel = "junior" /\ ClaimJobLevel = "senior"
    THEN "junior_applying_for_senior"
    ELSE IF ClaimCvLevel = "senior" /\ ClaimJobLevel = "junior"
    THEN "senior_applying_for_junior"
    ELSE None

\* C21: experience_gap is junior_applying_for_senior exactly when the
\* candidate is junior and the job senior, senior_applying_for_junior exactly
\* when the candidate is senior and the job junior, and none otherwise.
C21_ExperienceGapTable ==
    pc = "gaps" => skill_gaps.experience_gap = ClaimExperienceGap

\* well-formed profiles: technical skills, where given, are category mappings
ClaimWellFormed ==
    /\ "technical_skills" \in DOMAIN cv_skills => IsDict(cv_skills.technical_skills)
    /\ ("required_skills" \in DOMAIN job_requirements
        /\ "technical_skills" \in DOMAIN job_requirements.required_skills)
       => IsDict(job_requirements.required_skills.technical_skills)

ClaimRiskTag ==
    IF skill_gaps.experience_gap = "senior_applying_for_junior" THEN <<"high", 4>>
    ELSE IF skill_gaps.experience_gap = "junior_applying_for_senior" THEN <<"low", 3>>
    ELSE <<"medium", 1>>

\* C22: for well-formed profiles the gap record carries overqualification_risk,
\* retention_risk and risk_factors fixed by experience_gap alone: high/high and
\* 4 factors for senior_applying_for_junior, low/low and 3 factors for
\* junior_applying_for_senior, medium/medium and 1 factor otherwise; the two
\* risks are always equal.
C22_RiskFieldsFollowGap ==
    (pc = "gaps" /\ ClaimWellFormed) =>
        /\ {"overqualification_risk", "retention_risk", "risk_factors"}
              \subseteq DOMAIN skill_gaps
        /\ skill_gaps.overqualification_risk = ClaimRiskTag[1]
        /\ skill_gaps.retention_risk = ClaimRiskTag[1]
        /\ Len(skill_gaps.risk_factors) = ClaimRiskTag[2]
        /\ skill_gaps.overqualification_risk = skill_gaps.retention_risk

C22_Witness ==
    /\ pc = "gaps"
    /\ ClaimWellFormed
    /\ skill_gaps.experience_gap = "senior_applying_for_junior"
    /\ skill_gaps.overqualification_risk = "high"
    /\ Len(skill_gaps.risk_factors) = 4

-----------------------------------------------------------------------------
(* Claims about the recommendation texts of score_multiple_responses,      *)
(* checked under SpecAggregate.                                            *)

ClaimWarning ==
    Note("Inconsistent performance across questions - investigate further", <<>>)

ClaimHasWarning ==
    \E k \in 1..Len(results.recommendations) : results.recommendations[k] = ClaimWarning

\* C23: the recommendation texts of an aggregate are at most 5 and contain the
\* low-consistency warning exactly when the consistency score is below 70,
\* the consistency score being 100 when fewer than 2 responses were scored
\* (the empty input list included).
C23_WarningIffInconsistent ==
    pc = "aggregated" =>
        /\ Len(results.recommendations) <= 5
        /\ ClaimHasWarning <=> RLt(ClaimConsistency(ClaimEntryScores), R(70))

-----------------------------------------------------------------------------
(* Claims about the comprehensive report, checked under SpecCombine.       *)

\* the reports of a state: the one report, or every report of the batch
ClaimReports ==
    IF pc = "combined" THEN {comprehensive_report}
    ELSE IF pc = "reports" THEN {batch_reports[n] : n \in DOMAIN batch_reports}
    ELSE {}

ClaimLevelOf(recommendation) ==
    IF recommendation = "strong_hire" THEN "Excellent"
    ELSE IF recommendation = "hire" THEN "Good"
    ELSE IF recommendation = "consider" THEN "Fair"
    ELSE "Poor"

\* C24: in every comprehensive report the overall score and performance level
\* of the executive summary come from the weighted score of the final
\* recommendation, 0.4*CV score + 0.6*10*interview score, so the level is
\* Excellent, Good, Fair or Poor exactly when the final recommendation is
\* strong_hire, hire, consider or reject.
C24_SummaryLevelMatchesFinal ==
    \A report \in ClaimReports :
        LET shown == report.structured_report.executive_summary.overall_assessment
            weighted == WeightedScore(AssessedScore(report.cv_analysis, R(0)),
                                      AssessedScore(report.interview_scores, R(0)))
        IN  /\ shown.overall_score = Round1(weighted)
            /\ shown.performance_level = ClaimLevelOf(report.final_recommendation)

ClaimCautioned(cv) ==
    /\ "overall_assessment" \in DOMAIN cv
    /\ "hiring_recommendation" \in DOMAIN cv.overall_assessment
    /\ cv.overall_assessment.hiring_recommendation = "consider_with_caution"

\* C25: a report built from a CV analysis whose hiring_recommendation is
\* consider_with_caution never has final_recommendation strong_hire, whatever
\* the interview score.
C25_CautionNeverStrongHire ==
    \A report \in ClaimReports :
        ClaimCautioned(report.cv_analysis) => report.final_recommendation # "strong_hire"

ClaimIn(text, list) == \E k \in 1..Len(list) : list[k] = text

\* C29: for every CV analysis and interview record, a CV analysis without
\* skill_gaps included, red_flags holds "Very poor interview performance"
\* whenever the interview overall score is below 4 and "Significant skill
\* gaps" whenever a gap_score above 50 is present.
C29_RedFlagsRaised ==
    \A report \in ClaimReports :
        LET cv == report.cv_analysis
            interview == report.interview_scores
            red_flags == report.structured_report.risk_assessment.red_flags
        IN  /\ ("overall_assessment" \in DOMAIN interview
                /\ "overall_score" \in DOMAIN interview.overall_assessment
                /\ RLt(interview.overall_assessment.overall_score, R(4)))
               => ClaimIn("Very poor interview performance", red_flags)
            /\ ("skill_gaps" \in DOMAIN cv /\ "gap_score" \in DOMAIN cv.skill_gaps
                /\ RGt(cv.skill_gaps.gap_score, R(50)))
               => ClaimIn("Significant skill gaps", red_flags)

-----------------------------------------------------------------------------
(* Claims about the end-to-end analysis of two texts, checked under        *)
(* SpecEndToEnd.                                                           *)

\* the CV text holds every keyword that made the job extractor add a
\* requirement (as it does when the two texts are the same)
ClaimCvCoversJob ==
    \A k \in 1..Len(RequirementRules) :
        \A n \in 1..Len(RequirementRules[k].words) :
            Contains(Lower(job_description), RequirementRules[k].words[n])
                => Contains(Lower(cv_text), RequirementRules[k].words[n])

\* C26: in the end-to-end analysis, when the CV text is the job description or
\* holds every keyword that added a requirement, missing_technical_skills is
\* empty and gap_score is 0.
C26_CoveredJobHasNoGap ==
    (pc = "analysis" /\ (cv_text = job_description \/ ClaimCvCoversJob)) =>
        /\ analysis_result.skill_gaps.missing_technical_skills = <<>>
        /\ analysis_result.skill_gaps.gap_score = R(0)

\* the score of a gap score under the stub record: (260 - gap_score)/3
ClaimStubScore(gap_score) == RDiv(RSub(R(260), gap_score), 3)

\* C27: with the built-in stub record (model score 75, experience score 85)
\* the CV overall_score is (260 - gap_score)/3, lies between 160/3 and 260/3,
\* the hiring recommendation is never reject, and strong_hire is returned only
\* when no required skill is missing (also for every count of requirements
\* the job extractor can emit).
C27_StubScoreAndNeverReject ==
    /\ pc = "analysis" =>
        LET overall == analysis_result.overall_assessment
            gaps == analysis_result.skill_gaps
        IN  /\ overall.overall_score = ClaimStubScore(gaps.gap_score)
            /\ RGe(overall.overall_score, Rat(160, 3))
            /\ RLe(overall.overall_score, Rat(260, 3))
            /\ overall.hiring_recommendation # "reject"
            /\ overall.hiring_recommendation = "strong_hire"
                   => gaps.missing_technical_skills = <<>>
    /\ \A total \in 1..Len(RequirementRules) : \A missing \in 1..total :
           \A gap \in {None, "junior_applying_for_senior", "senior_applying_for_junior"} :
               LET gaps == [gap_score |-> GapScore(missing, total, gap)]
                                @@ RiskFields(gap)
                   score == OverallScore(EmptyDict, EmptyDict, gaps, PerformLlmAnalysis)
               IN  DetermineHiringRecommendationResult(score, gaps)
                       \notin {"strong_hire", "reject"}

C27_Witness ==
    /\ pc = "analysis"
    /\ analysis_result.overall_assessment.hiring_recommendation = "strong_hire"
    /\ analysis_result.overall_assessment.overall_score = Rat(260, 3)
    /\ analysis_result.job_requirements.required_skills.technical_skills # EmptyDict
    /\ analysis_result.skill_gaps.gap_score = R(0)

-----------------------------------------------------------------------------
(* Claims about the complete evaluation workflow, checked under            *)
(* SpecWorkflow.                                                           *)

\* every question of a generated question set
ClaimGeneratedQuestions(qs) ==
    {qs.technical_questions[k].question : k \in 1..Len(qs.technical_questions)}
    \cup {qs.behavioral_questions[k].question : k \in 1..Len(qs.behavioral_questions)}

ClaimPlainScores == {3, 5, 7, 8}

\* C28: when the scored questions come from generate_interview_questions, no
\* question contains "technical" or "programming", each per-response score
\* is one of 3, 5, 7, 8, the interview overall_score is at most 8, the
\* interview recommendation is not strong_hire, and the final recommendation
\* of the workflow is not strong_hire.
C28_GeneratedQuestionsCapScores ==
    /\ pc = "step3" =>
           \A text \in ClaimGeneratedQuestions(questions) :
               /\ ~Contains(Lower(text), S_technical)
               /\ ~Contains(Lower(text), S_programming)
               /\ \A answer \in {ShortResponse, MediumResponse, LongResponse,
                                 KeywordResponse} :
                      FallbackOverallScore(text, answer) \in ClaimPlainScores
    /\ pc = "step4" =>
           /\ \A k \in 1..Len(interview_scores.individual_scores) :
                  interview_scores.individual_scores[k].overall_score \in ClaimPlainScores
           /\ RLe(interview_scores.overall_assessment.overall_score, R(8))
           /\ interview_scores.overall_assessment.recommendation # "strong_hire"
    /\ \A name \in DOMAIN all_evaluations :
           all_evaluations[name].comprehensive_report.final_recommendation # "strong_hire"

\* a candidate whose three answers are long is recorded with an interview
\* score of 8 and the final recommendation hire
C28_Witness ==
    \E name \in DOMAIN all_evaluations :
        LET entry == all_evaluations[name]
        IN  /\ entry.interview_scores.overall_assessment.overall_score = R(8)
            /\ Len(entry.interview_scores.individual_scores) = 3
            /\ entry.comprehensive_report.final_recommendation = "hire"


ClaimStageOrder == <<"cv_analysis", "questions", "scoring", "report", "recorded">>

ClaimStageIndex(name) == CHOOSE n \in 1..Len(ClaimStageOrder) : ClaimStageOrder[n] = name

\* the k-th stage run is the CV analysis of the next candidate, or the stage
\* after the one run just before for the same candidate, which had no error
ClaimGated(k) ==
    LET event == stages_run[k]
    IN  IF event.stage = "cv_analysis"
        THEN event.candidate = IF k = 1 THEN 1 ELSE stages_run[k - 1].candidate + 1
        ELSE /\ k > 1
             /\ stages_run[k - 1].candidate = event.candidate
             /\ stages_run[k - 1].ok
             /\ ClaimStageIndex(stages_run[k - 1].stage) + 1 = ClaimStageIndex(event.stage)

ClaimRan(i, name) ==
    \E k \in 1..Len(stages_run) :
        stages_run[k].candidate = i /\ stages_run[k].stage = name

ClaimSucceeded(i, name) ==
    \E k \in 1..Len(stages_run) :
        stages_run[k].candidate = i /\ stages_run[k].stage = name /\ stages_run[k].ok

\* every entry of all_evaluations is of a candidate whose four stages succeeded
ClaimRecordedAfterSuccess ==
    \A name \in DOMAIN all_evaluations :
        \E i \in 1..Len(cv_files) :
            /\ PathStem(cv_files[i]) = name
            /\ \A n \in 1..4 : ClaimSucceeded(i, ClaimStageOrder[n])

\* the candidates whose CV analysis has been run: the first ones, in order
ClaimProcessed == {i \in 1..Len(cv_files) : ClaimRan(i, "cv_analysis")}

\* C30: in the complete workflow the stages of a candidate run in the order
\* CV analysis, question generation, response scoring, report generation, a
\* stage runs only if every earlier stage of the candidate gave a record
\* without an error field, a candidate is stored in all_evaluations only
\* after its four stages succeeded, and no error record or exception stops
\* the loop: the candidates are processed one after the other and the run
\* ends only when every candidate has been processed.
C30_StagesGatedLoopContinues ==
    /\ \A k \in 1..Len(stages_run) : ClaimGated(k)
    /\ ClaimRecordedAfterSuccess
    /\ ClaimProcessed = 1..(IF pc = "step1" THEN candidate - 1
                           ELSE IF pc = "finished" THEN Len(cv_files) ELSE candidate)
    /\ pc # "finished" => candidate \in 1..Len(cv_files)

\* a finished run in which one candidate's CV analysis gave an error record,
\* a later one's scoring raised or gave an error record, and a candidate
\* after that was stored
C30_Witness ==
    /\ pc = "finished"
    /\ \E i, j, n \in 1..Len(cv_files) :
          /\ i < j /\ j < n
          /\ ClaimRan(i, "cv_analysis") /\ ~ClaimSucceeded(i, "cv_analysis")
          /\ ClaimRan(j, "scoring") /\ ~ClaimSucceeded(j, "scoring")
          /\ ClaimRan(n, "recorded")
          /\ PathStem(cv_files[n]) \in DOMAIN all_evaluations

====
